---- MODULE Spec2Model ----
(***************************************************************************)
(* A model of the audio buffer engine of waqas-studio: the WAV serializer  *)
(* (src/App.tsx), the MP3 frame driver of the converter                    *)
(* (src/unnamed/part_000), clip creation (src/components/WaveformEditor),  *)
(* the toolkit: silence removal, normalization and speed change            *)
(* (src/components/AudioToolkit.tsx), and the merger                       *)
(* (src/components/Loader.tsx).                                            *)
(*                                                                         *)
(* Samples are floating point numbers in the code.  Here a sample is an    *)
(* integer number of 1/SampleDen units, so 0.5 is SampleDen \div 2 and     *)
(* every product and comparison of the code is computed exactly.           *)
(*                                                                         *)
(* Each component has its own specification (SpecWav, SpecMp3, SpecClip,   *)
(* SpecSilence, SpecSegments, SpecNormalize, SpecSpeed, SpecMerger,        *)
(* SpecPipeline); the variables of the other components rest at their      *)
(* "off" values meanwhile.  Spec is the union of them, and SpecBuffers     *)
(* runs the transformations over narrower inputs.                          *)
(*                                                                         *)
(* The handlers around the engine have specifications that start in the    *)
(* state after construction: SpecToolkitFile (the toolkit's file and its   *)
(* decode), SpecConverter (the converter's file, format, status and error  *)
(* timers), SpecFileList (the merger's list and its reordering), SpecApp   *)
(* (the clipper's state) and SpecClipList (the selection of clips).        *)
(***************************************************************************)
EXTENDS Integers, Sequences, FiniteSets, TLC

VARIABLES
    \* bufferToWave (src/App.tsx)
    abuffer, wavOut, wavPc,
    \* Converter.handleConvert, MP3 branch (src/unnamed/part_000)
    file, audioBuffer, pcm, pcmLeft, pcmRight, encoderCalls, mp3Data,
    status, downloadUrl, error, timers, closureStatus, cvPc,
    \* WaveformEditor (src/components/WaveformEditor.tsx)
    buffer, activeRegion, clips, edPc,
    \* AudioToolkit.processAudio and handleApplyAndDownload
    \* (src/components/AudioToolkit.tsx)
    sourceBuffer, silenceThreshold, scanI, segmentStart, nonSilentSegments, tkPc,
    shouldRemoveSilence, shouldNormalize, playbackSpeed,
    mergedSegments, newBuffer, composeK, offset, currentBuffer,
    gain, tkError, finalBuffer,
    \* Merger.handleMerge (src/components/Loader.tsx)
    files, isMerging, mergeError, mergeTimers, buffers, mergedBuffer, mgPc,
    \* AudioToolkit, the file and the download (src/components/AudioToolkit.tsx)
    tkFile, previewUrl, isProcessing, decodes, wavBlob, tkTimers,
    \* Converter, the file and the output format (src/unnamed/part_000)
    fileType, outputFormat, ffmpegRef,
    \* Merger, the reordering of the list (src/components/Loader.tsx)
    dragItem, dragOverItem, drag,
    \* App, the clipper (src/App.tsx)
    mode, appState, appError, appSourceBuffer, appFile,
    \* ClipList (src/components/ClipList.tsx)
    selectedClips, clipsMerging, clipsError, mergedClip

wavVars == <<abuffer, wavOut, wavPc>>
cvVars == <<file, audioBuffer, pcm, pcmLeft, pcmRight, encoderCalls, mp3Data,
            status, downloadUrl, error, timers, closureStatus, cvPc>>
edVars == <<buffer, activeRegion, clips, edPc>>
tkVars == <<sourceBuffer, silenceThreshold, scanI, segmentStart,
            nonSilentSegments, tkPc, shouldRemoveSilence, shouldNormalize,
            playbackSpeed, mergedSegments, newBuffer, composeK, offset,
            currentBuffer, gain, tkError, finalBuffer>>
mgVars == <<files, isMerging, mergeError, mergeTimers, buffers, mergedBuffer, mgPc>>
tuVars == <<tkFile, previewUrl, isProcessing, decodes, wavBlob, tkTimers>>
cuVars == <<fileType, outputFormat, ffmpegRef>>
dgVars == <<dragItem, dragOverItem, drag>>
apVars == <<mode, appState, appError, appSourceBuffer, appFile>>
clVars == <<selectedClips, clipsMerging, clipsError, mergedClip>>
uiVars == <<tuVars, cuVars, dgVars, apVars, clVars>>
vars == <<wavVars, cvVars, edVars, tkVars, mgVars, uiVars>>

----------------------------------------------------------------------------
(* Numbers *)

\* One sample unit is 1/SampleDen: 100 units are the amplitude 1.0.
SampleDen == 10 * 10

Max(a, b) == IF a >= b THEN a ELSE b
Min(a, b) == IF a <= b THEN a ELSE b
Abs(a) == IF a < 0 THEN -a ELSE a

\* n / d truncated toward zero (d > 0): what `| 0` and the typed-array
\* conversions do to a fraction.
TruncDiv(n, d) == IF n >= 0 THEN n \div d ELSE -((-n) \div d)

\* The null of the code, where the value is otherwise a string.
Null == "null"

\* An AudioBuffer: channels[c][f] is the sample of frame f-1 of channel c-1.
MakeBuffer(c, n, r, ch) ==
    [numberOfChannels |-> c, length |-> n, sampleRate |-> r, channels |-> ch]

\* null, where the value is otherwise an AudioBuffer, a Blob URL or a WAV
\* result: a value of the same shape that is none of them.
NullBuffer == MakeBuffer(0, 0, 0, <<>>)

\* A File: its name, its type, and the AudioBuffer decodeAudioData resolves
\* with for it (NullBuffer when it rejects); file = null is none of them.
MakeFile(name, type, audio) == [name |-> name, type |-> type, audio |-> audio]
NoFile == MakeFile(Null, Null, NullBuffer)
\* file.type.startsWith('audio/'), for the types of the model.
IsAudioType(type) == type \in {"audio/wav", "audio/mpeg"}
NullBlob == [type |-> Null, parts |-> <<>>]
NullWav == [view |-> <<>>, pos |-> 0, offset |-> 0]

\* ab is a buffer with a channel count of cs, minN..maxN frames, a rate of rs
\* and samples of vals.
IsBufferOf(ab, cs, minN, maxN, rs, vals) ==
    \E c \in cs, n \in minN..maxN, r \in rs :
        \E ch \in [1..c -> [1..n -> vals]] : ab = MakeBuffer(c, n, r, ch)

\* audioContext.createBuffer(c, n, r): n frames of silence.
createBuffer(c, n, r) == MakeBuffer(c, n, r, [k \in 1..c |-> [f \in 1..n |-> 0]])

\* TypedArray.subarray(begin, end) of non-negative indices: both are clamped
\* to the length.
subarray(arr, begin, end) ==
    SubSeq(arr, Min(begin, Len(arr)) + 1, Min(end, Len(arr)))

\* target.set(src, at): src written into target from index at (src fits).
setAt(target, src, at) ==
    [k \in 1..Len(target) |->
        IF k > at /\ k <= at + Len(src) THEN src[k - at] ELSE target[k]]

----------------------------------------------------------------------------
(* bufferToWave, src/App.tsx:21-74 *)

\* view.setUint16(pos, data, true): two bytes, low byte first.
setUint16Big(v, p, data) ==
    [v EXCEPT ![p + 1] = (data \div 256) % 256, ![p + 2] = data % 256]
setUint16(v, p, data) ==
    [v EXCEPT ![p + 1] = data % 256, ![p + 2] = (data \div 256) % 256]

\* view.setUint32(pos, data, true): four bytes, low byte first.
setUint32(v, p, data) ==
    [v EXCEPT ![p + 1] = data % 256,
              ![p + 2] = (data \div 256) % 256,
              ![p + 3] = (data \div 65536) % 256,
              ![p + 4] = (data \div 16777216) % 256]

\* view.setInt16(pos, sample, true): the two's complement of sample.
setInt16(v, p, sample) == setUint16(v, p, sample % 65536)

\* Math.max(-1, Math.min(1, x)).
Clamp(x) == Max(-SampleDen, Min(SampleDen, x))

\* Lines 65-66: the clamped sample is scaled by 32768 when 0.5 + sample < 0
\* and by 32767 otherwise, and `| 0` truncates.
Quantize(x) ==
    LET sample == Clamp(x)
    IN  IF SampleDen + 2 * sample < 0
        THEN TruncDiv(sample * 32768, SampleDen)
        ELSE TruncDiv(sample * 32767, SampleDen)

\* channels[i][offset] || 0: a read past the end is undefined, hence 0.
ChannelSampleFirst(ab, i, off) ==
    IF off < Len(ab.channels[1]) THEN ab.channels[1][off + 1] ELSE 0
ChannelSample(ab, i, off) ==
    IF off < Len(ab.channels[i + 1]) THEN ab.channels[i + 1][off + 1] ELSE 0

\* The header of lines 41-55, in writing order: <<width, value>>.
WavHeader(ab, length) ==
    << <<4, 1179011410>>,                                  \* "RIFF"
       <<4, length + 36>>,                                  \* file length - 8
       <<4, 1163280727>>,                                  \* "WAVE"
       <<4, 544501094>>,                                   \* "fmt "
       <<4, 16>>,                                          \* length of format data
       <<2, 1>>,                                           \* PCM
       <<2, ab.numberOfChannels>>,
       <<4, ab.sampleRate>>,
       <<4, ab.sampleRate * 2 * ab.numberOfChannels>>,     \* byte rate
       <<2, ab.numberOfChannels * 2>>,                     \* block align
       <<2, 16>>,                                          \* 16-bit samples
       <<4, 1635017060>>,                                  \* "data"
       <<4, length>> >>

\* The setUint16/setUint32 closures of lines 30-38, applied to fields k.. .
RECURSIVE WriteFields(_, _, _, _)
WriteFields(v, p, fields, k) ==
    IF k > Len(fields) THEN [view |-> v, pos |-> p]
    ELSE IF fields[k][1] = 2
         THEN WriteFields(setUint16(v, p, fields[k][2]), p + 2, fields, k + 1)
         ELSE WriteFields(setUint32(v, p, fields[k][2]), p + 4, fields, k + 1)

\* Lines 64-69: the samples of one frame, channel after channel.
RECURSIVE InterleaveFrame(_, _, _, _, _)
InterleaveFrame(ab, v, p, off, i) ==
    IF i < ab.numberOfChannels
    THEN InterleaveFrame(ab, setInt16(v, p, Quantize(ChannelSample(ab, i, off))),
                         p + 2, off, i + 1)
    ELSE v

\* Lines 63-71: the while loop; yields the view, pos and offset it ends with.
RECURSIVE InterleaveLoop(_, _, _, _, _)
InterleaveLoop(ab, length, v, p, off) ==
    IF p < 44 + length
    THEN InterleaveLoop(ab, length, InterleaveFrame(ab, v, p, off, 0),
                        p + 2 * ab.numberOfChannels, off + 1)
    ELSE [view |-> v, pos |-> p, offset |-> off]

\* bufferToWave(abuffer, len): the bytes of the Blob, with the final pos and
\* offset of the loop.
bufferToWave(ab, len) ==
    LET length == len * ab.numberOfChannels * 2
        zeros  == [k \in 1..(44 + length) |-> 0]
        head   == WriteFields(zeros, 0, WavHeader(ab, length), 1)
    IN  InterleaveLoop(ab, length, head.view, head.pos, 0)

\* The buffers given to the serializer.
MaxWavFrames == 2
WavChannelCounts == {1, 2}
WavRates == {8000, 44100}
WavSamples == {-150, -100, -75, -50, -25, 0, 50, 125}

WavOff == abuffer = NullBuffer /\ wavOut = NullWav /\ wavPc = "off"

WavInit ==
    /\ IsBufferOf(abuffer, WavChannelCounts, 0, MaxWavFrames, WavRates, WavSamples)
    /\ wavOut = NullWav /\ wavPc = "ready"

\* A caller serializes a buffer over its whole length (ClipList, Converter,
\* WaveformEditor and AudioToolkit all pass the buffer's own length).
BufferToWaveCall ==
    /\ wavPc = "ready"
    /\ wavOut' = bufferToWave(abuffer, abuffer.length)
    /\ wavPc' = "done"
    /\ UNCHANGED abuffer
    /\ UNCHANGED <<cvVars, edVars, tkVars, mgVars, uiVars>>

WavNext == BufferToWaveCall

----------------------------------------------------------------------------
(* Reading a WAV byte sequence back, little-endian *)

U16At(v, p) == v[p + 1] + 256 * v[p + 2]
U32At(v, p) == v[p + 1] + 256 * v[p + 2] + 65536 * v[p + 3] + 16777216 * v[p + 4]
I16At(v, p) == IF U16At(v, p) >= 32768 THEN U16At(v, p) - 65536 ELSE U16At(v, p)

\* The quantization the specification states: the sample clamped to [-1,1],
\* times 32768 when negative and times 32767 otherwise, truncated toward zero.
SignQuantize(x) ==
    LET s == IF x < -SampleDen THEN -SampleDen ELSE IF x > SampleDen THEN SampleDen ELSE x
    IN  IF s < 0 THEN TruncDiv(s * 32768, SampleDen) ELSE TruncDiv(s * 32767, SampleDen)

\* C1: every sample bufferToWave writes is the sample clamped to [-1,1],
\* multiplied by 32768 if negative and by 32767 otherwise, truncated toward
\* zero.  (The code scales by 32768 only below -0.5.)
C1_QuantizeBySign ==
    wavPc = "done" =>
        \A c \in 0..(abuffer.numberOfChannels - 1), f \in 0..(abuffer.length - 1) :
            I16At(wavOut.view, 44 + 2 * (f * abuffer.numberOfChannels + c))
                = SignQuantize(abuffer.channels[c + 1][f + 1])

\* C2: bufferToWave yields 44 + F*C*2 bytes whose header carries, little-endian,
\* RIFF size 36 + F*C*2, audioFormat 1, channelCount C, sampleRate R, byteRate
\* R*C*2, blockAlign C*2, bitsPerSample 16 and data size F*C*2.
C2_HeaderLayout ==
    wavPc = "done" =>
        LET C == abuffer.numberOfChannels
            R == abuffer.sampleRate
            F == abuffer.length
            v == wavOut.view
        IN  /\ Len(v) = 44 + F * C * 2
            /\ U32At(v, 4) = 36 + F * C * 2
            /\ U16At(v, 20) = 1
            /\ U16At(v, 22) = C
            /\ U32At(v, 24) = R
            /\ U32At(v, 28) = R * C * 2
            /\ U16At(v, 32) = C * 2
            /\ U16At(v, 34) = 16
            /\ U32At(v, 40) = F * C * 2

C2_Witness ==
    /\ wavPc = "done"
    /\ abuffer.numberOfChannels = 2 /\ abuffer.sampleRate = 44100 /\ abuffer.length = 2
    /\ Len(wavOut.view) = 52
    /\ U32At(wavOut.view, 28) = 176400

\* C3: the sample of frame f, channel c is stored at byte 44 + 2*(f*C + c), and
\* the write loop ends exactly when F*C samples are written (offset F, pos at
\* the end of the buffer).
C3_Interleaving ==
    wavPc = "done" =>
        LET C == abuffer.numberOfChannels
            F == abuffer.length
        IN  /\ \A c \in 0..(C - 1), f \in 0..(F - 1) :
                  I16At(wavOut.view, 44 + 2 * (f * C + c))
                      = Quantize(abuffer.channels[c + 1][f + 1])
            /\ wavOut.offset = F
            /\ wavOut.pos = 44 + 2 * F * C
            /\ wavOut.pos = Len(wavOut.view)

C3_Witness ==
    /\ wavPc = "done"
    /\ abuffer.numberOfChannels = 2 /\ abuffer.length = 2
    /\ abuffer.channels = << <<-100, 50>>, <<-25, 125>> >>
    /\ I16At(wavOut.view, 44) = -32768 /\ I16At(wavOut.view, 46) = -8191
    /\ I16At(wavOut.view, 48) = 16383 /\ I16At(wavOut.view, 50) = 32767

----------------------------------------------------------------------------
(* Converter.handleConvert, the MP3 branch: src/unnamed/part_000:153-238 *)

sampleBlockSize == 1152

\* Storing a number into an Int16Array: truncated toward zero, then wrapped
\* to 16 bits.
ToInt16(n) == ((n + 32768) % 65536) - 32768

\* Lines 194, 195 and 210: Math.max(-1, Math.min(1, x)) * 32767, stored into
\* an Int16Array.
Mp3Quantize(x) == ToInt16(TruncDiv(Clamp(x) * 32767, SampleDen))

\* The Int16Array filled from one channel (lines 191-196, 207-211).
QuantizeChannel(channelData) ==
    [k \in 1..Len(channelData) |-> Mp3Quantize(channelData[k])]

\* arr.subarray(i, j) is a view on arr: the range of arr it covers.
Chunk(arr, i, j) == [begin |-> Min(i, Len(arr)), end |-> Min(j, Len(arr))]

\* Lines 198-205: the calls encodeBuffer(leftChunk, rightChunk), from index i.
RECURSIVE StereoLoopInclusive(_, _, _, _)
StereoLoopInclusive(left, right, i, calls) ==
    IF i <= Len(left)
    THEN StereoLoopInclusive(left, right, i + sampleBlockSize,
                    Append(calls, [op |-> "encodeBuffer",
                                   args |-> <<Chunk(left, i, i + sampleBlockSize),
                                              Chunk(right, i, i + sampleBlockSize)>>]))
    ELSE calls
RECURSIVE StereoLoop(_, _, _, _)
StereoLoop(left, right, i, calls) ==
    IF i < Len(left)
    THEN StereoLoop(left, right, i + sampleBlockSize,
                    Append(calls, [op |-> "encodeBuffer",
                                   args |-> <<Chunk(left, i, i + sampleBlockSize),
                                              Chunk(right, i, i + sampleBlockSize)>>]))
    ELSE calls

\* Lines 213-219: the calls encodeBuffer(sampleChunk), from index i.
RECURSIVE MonoLoop(_, _, _)
MonoLoop(arr, i, calls) ==
    IF i < Len(arr)
    THEN MonoLoop(arr, i + sampleBlockSize,
                  Append(calls, [op |-> "encodeBuffer",
                                 args |-> <<Chunk(arr, i, i + sampleBlockSize)>>]))
    ELSE calls

\* Line 187: the stereo branch is taken for exactly two channels; every other
\* channel count takes the branch commented "Mono".
IsStereo(ab) == ab.numberOfChannels = 2

\* Lines 187-225: every call on the encoder, in order, when none throws.
EncoderCallsOf(ab) ==
    Append(IF IsStereo(ab)
           THEN StereoLoop(QuantizeChannel(ab.channels[1]),
                           QuantizeChannel(ab.channels[2]), 0, <<>>)
           ELSE MonoLoop(QuantizeChannel(ab.channels[1]), 0, <<>>),
           [op |-> "flush", args |-> <<>>])

\* Lines 202-204, 216-218, 223-225: the calls whose output is not empty are
\* pushed on mp3Data, in order (nonEmpty[k]: call k returned bytes).
RECURSIVE PushOutputs(_, _, _)
PushOutputs(n, nonEmpty, k) ==
    IF k > n THEN <<>>
    ELSE (IF nonEmpty[k] THEN <<k>> ELSE <<>>) \o PushOutputs(n, nonEmpty, k + 1)

\* The files given to the converter: b whole blocks and d more frames, the
\* samples running through SampleCycle; or a file that does not decode.
MaxMp3Blocks == 1
MaxTimers == 1
Mp3ChannelCounts == {1, 2, 3}
Mp3Tails == {1, 848, 1151, 1152}
SampleCycle == <<-150, -100, -75, -50, -25, 0, 50, 125>>
CycleBuffer(c, n, r) ==
    MakeBuffer(c, n, r,
        [ch \in 1..c |-> [f \in 1..n |-> SampleCycle[((f + 3 * ch) % Len(SampleCycle)) + 1]]])
Corrupt == NullBuffer

CvInit ==
    /\ \/ file = Corrupt
       \/ \E c \in Mp3ChannelCounts, b \in 0..MaxMp3Blocks, d \in Mp3Tails :
             file = CycleBuffer(c, b * sampleBlockSize + d, 44100)
    /\ audioBuffer = NullBuffer /\ pcm = <<>> /\ pcmLeft = <<>> /\ pcmRight = <<>>
    /\ encoderCalls = <<>> /\ mp3Data = <<>> /\ status = "idle"
    /\ downloadUrl = NullBlob /\ error = Null /\ timers = <<>>
    /\ closureStatus = "idle" /\ cvPc = "idle"

\* Lines 153-169 with outputFormat 'mp3' or 'wav': the click on Convert (the
\* button is rendered with a file and disabled while processing), up to the
\* await of the decode.  One handler is in flight at a time.
HandleConvert ==
    /\ cvPc = "idle"
    /\ fileType # Null
    /\ status \notin {"loading-ffmpeg", "converting"}
    /\ outputFormat # "mp4"
    /\ closureStatus' = status
    /\ error' = Null
    /\ downloadUrl' = NullBlob
    /\ status' = "converting"
    /\ audioBuffer' = NullBuffer /\ pcm' = <<>> /\ pcmLeft' = <<>> /\ pcmRight' = <<>>
    /\ encoderCalls' = <<>> /\ mp3Data' = <<>>
    /\ cvPc' = "decoding"
    /\ UNCHANGED <<file, timers>>
    /\ UNCHANGED <<wavVars, edVars, tkVars, mgVars, uiVars>>

\* displayError, lines 73-80, as the catch of lines 234-237 calls it: the
\* error and the status are set and a timer is started whose callback reads
\* the status of the render that made the handler.
DisplayError ==
    /\ error' = "Error converting file"
    /\ status' = "error"
    /\ timers' = Append(timers, closureStatus)

\* Lines 168-169 throw: the file does not decode.
DecodeFails ==
    /\ cvPc = "decoding"
    /\ file = Corrupt
    /\ Len(timers) < MaxTimers
    /\ DisplayError
    /\ cvPc' = "idle"
    /\ UNCHANGED <<file, audioBuffer, pcm, pcmLeft, pcmRight, encoderCalls, mp3Data,
                   downloadUrl, closureStatus>>
    /\ UNCHANGED <<wavVars, edVars, tkVars, mgVars, uiVars>>

\* Lines 169-232: the decode returns the buffer and the rest of the handler
\* runs to its end.  The encoder is an external library: lamejs may be missing
\* (throwAt = -1), its constructor (throwAt = 0) or its k-th call (throwAt = k)
\* may throw, or none does (throwAt = the number of calls + 1); nonEmpty[k]
\* tells whether call k returned any bytes.
DecodeAndEncode ==
    /\ cvPc = "decoding"
    /\ file # Corrupt
    /\ outputFormat = "mp3"
    /\ \E all \in {EncoderCallsOf(file)} :
       \E throwAt \in -1..(Len(all) + 1) :
       \E nonEmpty \in [1..Len(all) -> BOOLEAN] :
         /\ \A k \in 1..Len(all) : k >= throwAt => nonEmpty[k]
         /\ throwAt <= Len(all) => Len(timers) < MaxTimers
         /\ audioBuffer' = file
         /\ IF throwAt < 0
            THEN pcm' = <<>> /\ pcmLeft' = <<>> /\ pcmRight' = <<>>
            ELSE IF IsStereo(file)
                 THEN /\ pcmLeft' = QuantizeChannel(file.channels[1])
                      /\ pcmRight' = QuantizeChannel(file.channels[2])
                      /\ pcm' = <<>>
                 ELSE /\ pcm' = QuantizeChannel(file.channels[1])
                      /\ pcmLeft' = <<>> /\ pcmRight' = <<>>
         /\ encoderCalls' = IF throwAt < 0 THEN <<>>
                            ELSE SubSeq(all, 1, Min(throwAt, Len(all)))
         /\ mp3Data' = PushOutputs(IF throwAt > 0 THEN Min(throwAt - 1, Len(all)) ELSE 0,
                                   nonEmpty, 1)
         /\ IF throwAt > Len(all)
            THEN /\ downloadUrl' = [type |-> "audio/mpeg", parts |-> mp3Data']
                 /\ status' = "done"
                 /\ UNCHANGED <<error, timers>>
            ELSE DisplayError /\ UNCHANGED downloadUrl
    /\ cvPc' = "idle"
    /\ UNCHANGED <<file, closureStatus>>
    /\ UNCHANGED <<wavVars, edVars, tkVars, mgVars, uiVars>>

\* The timer callback of lines 76-79, six seconds after displayError.
ErrorTimerFires ==
    /\ timers # <<>>
    /\ error' = Null
    /\ status' = IF Head(timers) = "error" THEN "idle" ELSE status
    /\ timers' = Tail(timers)
    /\ UNCHANGED <<file, audioBuffer, pcm, pcmLeft, pcmRight, encoderCalls, mp3Data,
                   downloadUrl, closureStatus, cvPc>>
    /\ UNCHANGED <<wavVars, edVars, tkVars, mgVars, uiVars>>

CvNext == HandleConvert \/ DecodeFails \/ DecodeAndEncode \/ ErrorTimerFires

----------------------------------------------------------------------------
(* Converter, the file, the format and the status:                         *)
(* src/unnamed/part_000:73-151, 160-176, 240-245, 251-336                   *)

\* The files offered to the converter.
ConverterFiles ==
    { MakeFile("a.wav", "audio/wav", CycleBuffer(1, 1, 8000)),
      MakeFile("v.mp4", "video/mp4", CycleBuffer(2, 1, 44100)),
      MakeFile("broken.mp3", "audio/mpeg", Corrupt),
      MakeFile("notes.txt", "text/plain", Corrupt) }

\* Line 247: isProcessing.
CvIsProcessing == status = "loading-ffmpeg" \/ status = "converting"

\* The state after construction, lines 62-71: no file is chosen.
CvFileInit ==
    /\ file = Corrupt /\ fileType = Null /\ outputFormat = "mp3" /\ ffmpegRef = FALSE
    /\ audioBuffer = NullBuffer /\ pcm = <<>> /\ pcmLeft = <<>> /\ pcmRight = <<>>
    /\ encoderCalls = <<>> /\ mp3Data = <<>> /\ status = "idle"
    /\ downloadUrl = NullBlob /\ error = Null /\ timers = <<>>
    /\ closureStatus = "idle" /\ cvPc = "idle"

\* What the actions on the file and the format leave alone.
CvFileFrame ==
    /\ UNCHANGED <<audioBuffer, pcm, pcmLeft, pcmRight, encoderCalls, mp3Data>>
    /\ UNCHANGED <<wavVars, edVars, tkVars, mgVars, tuVars, dgVars, apVars, clVars>>

\* handleFileSelect, lines 82-93: the upload area is rendered while file is
\* null (line 251).  The timer of displayError reads the status of the
\* render that made this handler.
CvHandleFileSelect ==
    /\ cvPc = "idle"
    /\ fileType = Null
    /\ \E selectedFile \in ConverterFiles :
         IF ~IsAudioType(selectedFile.type) /\ selectedFile.type # "video/mp4"
         THEN /\ Len(timers) < MaxTimers
              /\ error' = "Please upload a valid audio or video file."
              /\ status' = "error"
              /\ timers' = Append(timers, status)
              /\ UNCHANGED <<file, fileType, outputFormat, downloadUrl>>
         ELSE /\ file' = selectedFile.audio
              /\ fileType' = selectedFile.type
              /\ outputFormat' = IF IsAudioType(selectedFile.type) THEN "mp4" ELSE "mp3"
              /\ downloadUrl' = NullBlob
              /\ error' = Null
              /\ status' = "idle"
              /\ UNCHANGED timers
    /\ UNCHANGED <<ffmpegRef, closureStatus, cvPc>>
    /\ CvFileFrame

\* Lines 275-284: the format select; MP4 is offered for audio files only.
SetOutputFormat ==
    /\ fileType # Null
    /\ \E format \in {"mp3", "wav", "mp4"} :
         /\ format = "mp4" => IsAudioType(fileType)
         /\ outputFormat' = format
    /\ UNCHANGED <<file, fileType, ffmpegRef, status, downloadUrl, error, timers,
                   closureStatus, cvPc>>
    /\ CvFileFrame

\* reset, lines 240-245: "Use Another File" is disabled while processing.
CvReset ==
    /\ cvPc = "idle"
    /\ fileType # Null
    /\ ~CvIsProcessing
    /\ file' = Corrupt /\ fileType' = Null
    /\ downloadUrl' = NullBlob
    /\ error' = Null
    /\ status' = "idle"
    /\ UNCHANGED <<outputFormat, ffmpegRef, timers, closureStatus, cvPc>>
    /\ CvFileFrame

\* Lines 153-162, 117-118 and 95-104 with outputFormat 'mp4': the click on
\* Convert, up to the first await.  loadFfmpeg returns the engine it loaded
\* before, or throws when the FFmpeg global is missing (ffmpegGlobal = FALSE),
\* or starts loading.
HandleConvertMp4 ==
    /\ cvPc = "idle"
    /\ fileType # Null
    /\ ~CvIsProcessing
    /\ outputFormat = "mp4"
    /\ closureStatus' = status
    /\ downloadUrl' = NullBlob
    /\ IF ffmpegRef
       THEN /\ status' = "converting" /\ cvPc' = "mp4" /\ error' = Null
            /\ UNCHANGED timers
       ELSE \E ffmpegGlobal \in BOOLEAN :
              IF ffmpegGlobal
              THEN /\ status' = "loading-ffmpeg" /\ cvPc' = "loading" /\ error' = Null
                   /\ UNCHANGED timers
              ELSE /\ Len(timers) < MaxTimers
                   /\ error' = "Error converting file"
                   /\ status' = "error"
                   /\ timers' = Append(timers, status)
                   /\ UNCHANGED cvPc
    /\ UNCHANGED <<file, fileType, outputFormat, ffmpegRef>>
    /\ CvFileFrame

\* Lines 112-121: ffmpeg.load() resolves.
FfmpegLoads ==
    /\ cvPc = "loading"
    /\ ffmpegRef' = TRUE
    /\ status' = "converting"
    /\ cvPc' = "mp4"
    /\ UNCHANGED <<file, fileType, outputFormat, downloadUrl, error, timers,
                   closureStatus>>
    /\ CvFileFrame

\* Lines 123-150: the thumbnail is drawn, ffmpeg runs and the MP4 is read.
Mp4Converts ==
    /\ cvPc = "mp4"
    /\ downloadUrl' = [type |-> "video/mp4", parts |-> <<>>]
    /\ status' = "done"
    /\ cvPc' = "idle"
    /\ UNCHANGED <<file, fileType, outputFormat, ffmpegRef, error, timers,
                   closureStatus>>
    /\ CvFileFrame

\* ffmpeg.load() (line 112) rejects, or a call of lines 123-146 throws: the
\* catch of lines 234-237.
Mp4Fails ==
    /\ cvPc \in {"loading", "mp4"}
    /\ Len(timers) < MaxTimers
    /\ DisplayError
    /\ cvPc' = "idle"
    /\ UNCHANGED <<file, fileType, outputFormat, ffmpegRef, downloadUrl, closureStatus>>
    /\ CvFileFrame

\* Lines 169-176 and 230-232 with outputFormat 'wav'.
DecodeAndSerialize ==
    /\ cvPc = "decoding"
    /\ file # Corrupt
    /\ outputFormat = "wav"
    /\ audioBuffer' = file
    /\ downloadUrl' = [type |-> "audio/wav",
                       parts |-> << bufferToWave(file, file.length).view >>]
    /\ status' = "done"
    /\ cvPc' = "idle"
    /\ UNCHANGED <<file, fileType, outputFormat, ffmpegRef, error, timers,
                   closureStatus, pcm, pcmLeft, pcmRight, encoderCalls, mp3Data>>
    /\ UNCHANGED <<wavVars, edVars, tkVars, mgVars, tuVars, dgVars, apVars, clVars>>

CvFileNext ==
    \/ CvHandleFileSelect \/ SetOutputFormat \/ CvReset
    \/ HandleConvert \/ DecodeFails \/ DecodeAndEncode \/ DecodeAndSerialize
    \/ HandleConvertMp4 \/ FfmpegLoads \/ Mp4Converts \/ Mp4Fails
    \/ ErrorTimerFires

----------------------------------------------------------------------------
(* The MP3 branch: claims *)

\* The Int16Array whose chunk is the a-th argument of an encodeBuffer call,
\* and the channel it was filled from.
FedArray(a) == IF IsStereo(audioBuffer) THEN (IF a = 1 THEN pcmLeft ELSE pcmRight) ELSE pcm

\* C4: the MP3 path quantizes every sample with the rule of the WAV
\* serializer: the int16 fed to the block encoder equals the int16
\* bufferToWave writes for that sample.  (The code scales every sample by
\* 32767, so -1.0 is fed as -32767 where bufferToWave writes -32768.)
C4_SameQuantizationAsWav ==
    \A j \in 1..Len(encoderCalls) : \A a \in 1..Len(encoderCalls[j].args) :
        \A k \in (encoderCalls[j].args[a].begin + 1)..encoderCalls[j].args[a].end :
            FedArray(a)[k] = Quantize(audioBuffer.channels[a][k])

\* C5: for an N-frame mono or stereo buffer the driver calls the block encoder
\* ceil(N/1152) times in increasing frame order, every block of 1152 samples
\* per channel but the last, of N - 1152*(ceil(N/1152)-1), and then flushes
\* once, after the last encode call.
C5_BlockCalls ==
    audioBuffer.numberOfChannels \in {1, 2} =>
        LET N  == audioBuffer.length
            nb == (N + 1151) \div 1152
        IN  /\ \A k \in 1..Len(encoderCalls) :
                 /\ encoderCalls[k].op = "flush" <=> k = nb + 1
                 /\ encoderCalls[k].op = "encodeBuffer" <=> k <= nb
                 /\ k <= nb =>
                      /\ Len(encoderCalls[k].args) = audioBuffer.numberOfChannels
                      /\ \A a \in 1..Len(encoderCalls[k].args) :
                           /\ encoderCalls[k].args[a].begin = 1152 * (k - 1)
                           /\ encoderCalls[k].args[a].end - encoderCalls[k].args[a].begin
                                 = IF k < nb THEN 1152 ELSE N - 1152 * (nb - 1)
            /\ Len(encoderCalls) <= nb + 1
            /\ status = "done" => Len(encoderCalls) = nb + 1

C5_Witness ==
    /\ status = "done"
    /\ audioBuffer.numberOfChannels = 2 /\ audioBuffer.length = 2000
    /\ encoderCalls =
         << [op |-> "encodeBuffer", args |-> << [begin |-> 0, end |-> 1152],
                                                [begin |-> 0, end |-> 1152] >>],
            [op |-> "encodeBuffer", args |-> << [begin |-> 1152, end |-> 2000],
                                                [begin |-> 1152, end |-> 2000] >>],
            [op |-> "flush", args |-> <<>>] >>

\* C6: converting a buffer of more than 2 channels to MP3 fails: no encode
\* call is made and no MP3 output is produced.  (The code encodes channel 0
\* through the mono branch.)
C6_RejectsMoreThanTwoChannels ==
    audioBuffer.numberOfChannels > 2 =>
        /\ encoderCalls = <<>>
        /\ downloadUrl = NullBlob
        /\ status # "done"

----------------------------------------------------------------------------
(* WaveformEditor.handleCreateClip: src/components/WaveformEditor.tsx:81-115 *)

\* A time is a whole number of ticks; region.start and region.end are times.
TicksPerSecond == 2 * 8000

\* activeRegion = null.
NullRegion == [start |-> -1, end |-> -1]

\* Math.floor(t * sampleRate), lines 91-92.
FrameIndexCeil(t, sampleRate) == (t * sampleRate + TicksPerSecond - 1) \div TicksPerSecond
FrameIndex(t, sampleRate) == (t * sampleRate) \div TicksPerSecond

\* Lines 97-105: the new buffer, each channel set from the subarray of the
\* source channel.
NewClipBuffer(ob, startIndex, endIndex) ==
    LET fresh == createBuffer(ob.numberOfChannels, endIndex - startIndex, ob.sampleRate)
    IN  [fresh EXCEPT !.channels =
            [i \in 1..ob.numberOfChannels |->
                setAt(fresh.channels[i], subarray(ob.channels[i], startIndex, endIndex), 0)]]

\* The source buffers of the editor: frame f of channel c holds 10*f + c,
\* so that no two samples of a buffer are equal.
MaxClipFrames == 3
MaxClips == 1
ClipChannelCounts == {1, 2}
RampBuffer(c, n, r) ==
    MakeBuffer(c, n, r, [ch \in 1..c |-> [f \in 1..n |-> 10 * f + ch]])

\* The times a region of the widget may carry over a buffer of n frames: any
\* half frame from 0 to one frame past the end.
RegionTimes(n) == 0..(2 * n + 2)

EdInit ==
    /\ \E c \in ClipChannelCounts, n \in 1..MaxClipFrames : buffer = RampBuffer(c, n, 8000)
    /\ activeRegion = NullRegion
    /\ clips = <<>>
    /\ edPc = "editing"

\* Lines 46-57: 'region-created' and 'region-updated' of the regions plugin.
RegionChanged ==
    /\ edPc = "editing"
    /\ \E a \in RegionTimes(buffer.length), b \in RegionTimes(buffer.length) :
           activeRegion' = [start |-> a, end |-> b]
    /\ UNCHANGED <<buffer, clips, edPc>>
    /\ UNCHANGED <<wavVars, cvVars, tkVars, mgVars, uiVars>>

\* Lines 69-72: 'interaction' clears the region.
Interaction ==
    /\ edPc = "editing"
    /\ activeRegion' = NullRegion
    /\ UNCHANGED <<buffer, clips, edPc>>
    /\ UNCHANGED <<wavVars, cvVars, tkVars, mgVars, uiVars>>

\* Lines 81-115.
HandleCreateClip ==
    /\ edPc = "editing"
    /\ activeRegion # NullRegion
    /\ Len(clips) < MaxClips
    /\ LET startIndex == FrameIndex(activeRegion.start, buffer.sampleRate)
           endIndex   == FrameIndex(activeRegion.end, buffer.sampleRate)
           frameCount == endIndex - startIndex
       IN  IF frameCount <= 0
           THEN UNCHANGED <<activeRegion, clips>>
           ELSE LET newClipBuffer == NewClipBuffer(buffer, startIndex, endIndex)
                IN  /\ clips' = Append(clips,
                           [url |-> bufferToWave(newClipBuffer, frameCount).view,
                            buffer |-> newClipBuffer])
                    /\ activeRegion' = NullRegion
    /\ UNCHANGED <<buffer, edPc>>
    /\ UNCHANGED <<wavVars, cvVars, tkVars, mgVars, uiVars>>

EdNext == RegionChanged \/ Interaction \/ HandleCreateClip

\* The frames of the active region, as the specification derives them:
\* floor(time * sampleRate).
RegionStartFrame == (activeRegion.start * buffer.sampleRate) \div TicksPerSecond
RegionEndFrame == (activeRegion.end * buffer.sampleRate) \div TicksPerSecond
ClipAdded == Len(clips') = Len(clips) + 1
LastClip(cs) == cs[Len(cs)].buffer

\* C7: a clip created from a region (startFrame < endFrame <= frameCount) is a
\* new buffer with the source's channel count and sample rate, frameCount =
\* endFrame - startFrame and out[c][i] = source[c][startFrame + i]; over the
\* full range it equals the source.
C7_ClipIsRegionCopy ==
    [][ (ClipAdded /\ RegionStartFrame < RegionEndFrame
                   /\ RegionEndFrame <= buffer.length) =>
          /\ LastClip(clips').numberOfChannels = buffer.numberOfChannels
          /\ LastClip(clips').sampleRate = buffer.sampleRate
          /\ LastClip(clips').length = RegionEndFrame - RegionStartFrame
          /\ \A c \in 1..buffer.numberOfChannels :
                /\ Len(LastClip(clips').channels[c]) = RegionEndFrame - RegionStartFrame
                /\ \A i \in 1..(RegionEndFrame - RegionStartFrame) :
                      LastClip(clips').channels[c][i]
                          = buffer.channels[c][RegionStartFrame + i]
          /\ (RegionStartFrame = 0 /\ RegionEndFrame = buffer.length)
                => LastClip(clips') = buffer
      ]_vars

C7_Witness ==
    /\ edPc = "editing"
    /\ buffer = RampBuffer(2, 3, 8000)
    /\ clips # <<>>
    /\ clips[1].buffer.channels = << <<21, 31>>, <<22, 32>> >>

\* C8: region extraction produces no clip whenever endFrame > frameCount or
\* startFrame >= endFrame; a clip is created only for regions with
\* startFrame < endFrame <= frameCount.  (The code never compares endFrame
\* with the length of the buffer.)
C8_InvalidRegionRejected ==
    [][ ClipAdded => (RegionStartFrame < RegionEndFrame
                      /\ RegionEndFrame <= buffer.length) ]_vars

----------------------------------------------------------------------------
(* AudioToolkit.processAudio, the silence scan:                            *)
(* src/components/AudioToolkit.tsx:78-102                                  *)

\* Math.pow(10, silenceThreshold / 20) in sample units, for the thresholds
\* whose value is a whole number of them: -20 dB is 0.1 and -40 dB is 0.01.
LinearThreshold(dB) ==
    CASE dB = -20 -> SampleDen \div 10
      [] dB = -40 -> SampleDen \div 100

\* Line 80: currentBuffer.getChannelData(0), the channel the scan analyzes.
AnalyzedChannelLast(cb) == cb.channels[cb.numberOfChannels]
AnalyzedChannel(cb) == cb.channels[1]

\* Math.floor(0.1 * sampleRate), line 82.
PaddingSamplesNone(sampleRate) == 0
PaddingSamples(sampleRate) == sampleRate \div 10

\* Lines 89-98: the body of the scan loop at frame i (from 0), on the loop
\* state st = [segmentStart, segments].
ScanFrameGreedy(channelData, linearThreshold, paddingSamples, i, st) ==
    IF Abs(channelData[i + 1]) >= linearThreshold /\ st.segmentStart = -1
    THEN [st EXCEPT !.segmentStart = i]
    ELSE IF Abs(channelData[i + 1]) < linearThreshold /\ st.segmentStart # -1
    THEN [segmentStart |-> -1,
          segments |-> Append(st.segments,
              [start |-> Max(0, st.segmentStart - paddingSamples),
               end   |-> Min(Len(channelData), i + paddingSamples)])]
    ELSE st
ScanFrameUnclamped(channelData, linearThreshold, paddingSamples, i, st) ==
    IF Abs(channelData[i + 1]) > linearThreshold /\ st.segmentStart = -1
    THEN [st EXCEPT !.segmentStart = i]
    ELSE IF Abs(channelData[i + 1]) < linearThreshold /\ st.segmentStart # -1
    THEN [segmentStart |-> -1,
          segments |-> Append(st.segments,
              [start |-> st.segmentStart - paddingSamples,
               end   |-> i + paddingSamples])]
    ELSE st
ScanFrameStep(channelData, linearThreshold, paddingSamples, i, st) ==
    IF Abs(channelData[i + 1]) > linearThreshold /\ st.segmentStart = -1
    THEN [st EXCEPT !.segmentStart = i]
    ELSE IF Abs(channelData[i + 1]) < linearThreshold /\ st.segmentStart # -1
    THEN [segmentStart |-> -1,
          segments |-> Append(st.segments,
              [start |-> Max(0, st.segmentStart - paddingSamples),
               end   |-> Min(Len(channelData), i + paddingSamples)])]
    ELSE st

\* The buffers of the toolkit.  Their frame rates are scaled down, so that the
\* 100 ms of padding are 0, 1 or 2 frames of a buffer of a few frames.
MaxScanFrames == 5
ScanRates == {5, 10, 20}
ScanChannelCounts == {1, 2}
ScanSamples == {0, 1, -10, 50}
ScanThresholds == {-40, -20}
\* Channel 0 is ch0; a second channel holds its opposite.
ToolkitBuffer(c, r, ch0) ==
    MakeBuffer(c, Len(ch0), r,
        [k \in 1..c |-> IF k = 1 THEN ch0 ELSE [f \in 1..Len(ch0) |-> -ch0[f]]])
\* 4 silent frames, 4 frames of amplitude 0.5, 4 silent frames.
QuietLoudQuiet == <<0, 0, 0, 0, 50, 50, 50, 50, 0, 0, 0, 0>>

\* Lines 105-114: the merge fold over segments k.. (the first was shifted
\* into merged).  An entry of merged is the segment object of the input at
\* index from: `last.end = ...` writes into that object.
RECURSIVE MergeFoldNoMax(_, _, _)
MergeFoldNoMax(segments, k, merged) ==
    IF k > Len(segments) THEN merged
    ELSE LET last == merged[Len(merged)]
             segment == segments[k]
         IN  IF segment.start < last.end
             THEN MergeFoldNoMax(segments, k + 1,
                      [merged EXCEPT ![Len(merged)].end = segment.end])
             ELSE MergeFoldNoMax(segments, k + 1,
                      Append(merged, [start |-> segment.start, end |-> segment.end,
                                      from |-> k]))
RECURSIVE MergeFoldPrevious(_, _, _)
MergeFoldPrevious(segments, k, merged) ==
    IF k > Len(segments) THEN merged
    ELSE LET last == merged[Len(merged)]
             segment == segments[k]
         IN  IF segment.start < segments[k - 1].end
             THEN MergeFoldPrevious(segments, k + 1,
                      [merged EXCEPT ![Len(merged)].end = Max(last.end, segment.end)])
             ELSE MergeFoldPrevious(segments, k + 1,
                      Append(merged, [start |-> segment.start, end |-> segment.end,
                                      from |-> k]))
RECURSIVE MergeFold(_, _, _)
MergeFold(segments, k, merged) ==
    IF k > Len(segments) THEN merged
    ELSE LET last == merged[Len(merged)]
             segment == segments[k]
         IN  IF segment.start < last.end
             THEN MergeFold(segments, k + 1,
                      [merged EXCEPT ![Len(merged)].end = Max(last.end, segment.end)])
             ELSE MergeFold(segments, k + 1,
                      Append(merged, [start |-> segment.start, end |-> segment.end,
                                      from |-> k]))

\* Lines 105-114 on a list of segments: the merged objects; no list is made
\* of an empty one.
MergedObjects(segments) ==
    IF Len(segments) > 0
    THEN MergeFold(segments, 2,
                   << [start |-> segments[1].start, end |-> segments[1].end, from |-> 1] >>)
    ELSE <<>>

\* mergedSegments, as the values of its objects.
mergeOverlapping(segments) ==
    LET merged == MergedObjects(segments)
    IN  [m \in 1..Len(merged) |-> [start |-> merged[m].start, end |-> merged[m].end]]

\* nonSilentSegments after lines 106-114: shift() took its first entry away,
\* and the entries that were pushed on mergedSegments carry the end the fold
\* wrote into them.
SegmentsAfterMerge(segments) ==
    LET merged == MergedObjects(segments)
    IN  [k \in 1..(Len(segments) - 1) |->
            IF \E m \in 1..Len(merged) : merged[m].from = k + 1
            THEN LET m == CHOOSE m \in 1..Len(merged) : merged[m].from = k + 1
                 IN  [start |-> merged[m].start, end |-> merged[m].end]
            ELSE segments[k + 1]]

\* Line 116: mergedSegments.reduce((sum, seg) => sum + (seg.end - seg.start), 0).
RECURSIVE TotalLength(_, _)
TotalLength(segs, k) ==
    IF k > Len(segs) THEN 0
    ELSE (segs[k].end - segs[k].start) + TotalLength(segs, k + 1)

\* Lines 130 and 133: the buffer made when there is nothing to copy.
EmptyOutputNoFrame(cb) == createBuffer(cb.numberOfChannels, 0, cb.sampleRate)
EmptyOutput(cb) == createBuffer(cb.numberOfChannels, 1, cb.sampleRate)

\* Lines 122-123: the frames of a segment in channel c (from 0).
SegmentDataFirst(cb, c, segment) ==
    subarray(cb.channels[1], segment.start, segment.end)
SegmentData(cb, c, segment) ==
    subarray(cb.channels[c + 1], segment.start, segment.end)

\* Lines 121-125: one segment set into every channel of nb at off.
CopySegment(cb, nb, segment, off) ==
    [nb EXCEPT !.channels =
        [c \in 1..cb.numberOfChannels |->
            setAt(nb.channels[c], SegmentData(cb, c - 1, segment), off)]]

\* Lines 138-144: the largest |sample| of the buffer, channel after channel.
RECURSIVE MaxAmpOfChannel(_, _, _)
MaxAmpOfChannel(channelData, i, maxAmp) ==
    IF i > Len(channelData) THEN maxAmp
    ELSE MaxAmpOfChannel(channelData, i + 1, Max(maxAmp, Abs(channelData[i])))
RECURSIVE MaxAmp(_, _, _)
MaxAmp(cb, c, maxAmp) ==
    IF c > cb.numberOfChannels THEN maxAmp
    ELSE MaxAmp(cb, c + 1, MaxAmpOfChannel(cb.channels[c], 1, maxAmp))

\* Line 146: maxAmp > 0 && maxAmp < 1.
NeedsGainWhenLoud(maxAmp) == maxAmp > 0
NeedsGain(maxAmp) == maxAmp > 0 /\ maxAmp < SampleDen

\* Line 147: gain = 1.0 / maxAmp, as the fraction num / den; and no gain.
GainFor(maxAmp) == [num |-> SampleDen, den |-> maxAmp]
NullGain == [num |-> 0, den |-> 1]

\* Lines 151-157, were the graph to render: every sample times the gain, to
\* the sample unit.
ApplyGain(cb, g) ==
    [cb EXCEPT !.channels =
        [c \in 1..cb.numberOfChannels |->
            [f \in 1..cb.length |-> TruncDiv(cb.channels[c][f] * g.num, g.den)]]]

\* Lines 148-154: gainNode is made by audioContext, the page's AudioContext
\* (src/App.tsx:85-90), and source by offlineCtx.  AudioNode.connect throws
\* InvalidAccessError when the destination node belongs to another context.
GainNodeContext == "audioContext"
SourceNodeContext == "offlineCtx"
ConnectThrows(fromContext, toContext) == fromContext # toContext

\* The slider of lines 222-229: playbackSpeed is a number of steps of 0.05,
\* from 0.5 to 3.
SpeedDen == 20
PlaybackSpeeds == (SpeedDen \div 2)..(3 * SpeedDen)

\* Line 173: Math.ceil(length / playbackSpeed).
SpeedFramesFloor(length, speed) == (length * SpeedDen) \div speed
SpeedFrames(length, speed) == (length * SpeedDen + speed - 1) \div speed

\* Lines 171-181: what offlineCtx.startRendering() resolves with is a buffer
\* of the channel count, length and rate given to the OfflineAudioContext;
\* its samples are the resampler's and are left out.
RenderedFormat(c, n, r) == MakeBuffer(c, n, r, <<>>)

\* The locals of processAudio and handleApplyAndDownload before Apply is
\* clicked.
TkScanIdle == scanI = 0 /\ segmentStart = -1 /\ nonSilentSegments = <<>>
TkIdle ==
    /\ mergedSegments = <<>> /\ newBuffer = NullBuffer /\ composeK = 0 /\ offset = 0
    /\ currentBuffer = NullBuffer /\ gain = NullGain /\ tkError = Null
    /\ finalBuffer = NullBuffer

TkInit ==
    /\ \/ \E c \in ScanChannelCounts, r \in ScanRates, n \in 1..MaxScanFrames :
             \E ch0 \in [1..n -> ScanSamples] : sourceBuffer = ToolkitBuffer(c, r, ch0)
       \/ \E r \in ScanRates : sourceBuffer = ToolkitBuffer(2, r, QuietLoudQuiet)
    /\ silenceThreshold \in ScanThresholds
    /\ shouldRemoveSilence = TRUE /\ shouldNormalize = FALSE /\ playbackSpeed = SpeedDen
    /\ TkScanIdle /\ TkIdle
    /\ tkPc = "ready"

\* Lines 164-166 and 72-85, shouldRemoveSilence being set: the click on Apply
\* (the button is disabled while isProcessing); the scan starts.
StartScan ==
    /\ tkPc = "ready"
    /\ ~isProcessing
    /\ shouldRemoveSilence
    /\ isProcessing' = TRUE /\ tkError' = Null
    /\ scanI' = 0 /\ segmentStart' = -1 /\ nonSilentSegments' = <<>>
    /\ currentBuffer' = sourceBuffer
    /\ tkPc' = "scan"
    /\ UNCHANGED <<sourceBuffer, silenceThreshold, shouldRemoveSilence, shouldNormalize,
                   playbackSpeed, mergedSegments, newBuffer, composeK, offset,
                   gain, finalBuffer>>
    /\ UNCHANGED <<tkFile, previewUrl, decodes, wavBlob, tkTimers>>
    /\ UNCHANGED <<wavVars, cvVars, edVars, mgVars, cuVars, dgVars, apVars, clVars>>

\* Lines 88-99: one turn of the loop.
ScanFrame ==
    /\ tkPc = "scan"
    /\ scanI < Len(AnalyzedChannel(sourceBuffer))
    /\ LET st == ScanFrameStep(AnalyzedChannel(sourceBuffer),
                               LinearThreshold(silenceThreshold),
                               PaddingSamples(sourceBuffer.sampleRate), scanI,
                               [segmentStart |-> segmentStart,
                                segments |-> nonSilentSegments])
       IN  /\ segmentStart' = st.segmentStart
           /\ nonSilentSegments' = st.segments
    /\ scanI' = scanI + 1
    /\ UNCHANGED <<sourceBuffer, silenceThreshold, tkPc, shouldRemoveSilence,
                   shouldNormalize, playbackSpeed, mergedSegments, newBuffer, composeK,
                   offset, currentBuffer, gain, tkError, finalBuffer>>
    /\ UNCHANGED <<wavVars, cvVars, edVars, mgVars, uiVars>>

\* Lines 100-102: the loop is over; a segment still open ends with the buffer.
ScanEnd ==
    /\ tkPc = "scan"
    /\ scanI >= Len(AnalyzedChannel(sourceBuffer))
    /\ nonSilentSegments' =
          IF segmentStart # -1
          THEN Append(nonSilentSegments,
                      [start |-> segmentStart, end |-> Len(AnalyzedChannel(sourceBuffer))])
          ELSE nonSilentSegments
    /\ tkPc' = "scanned"
    /\ UNCHANGED <<sourceBuffer, silenceThreshold, scanI, segmentStart,
                   shouldRemoveSilence, shouldNormalize, playbackSpeed, mergedSegments,
                   newBuffer, composeK, offset, currentBuffer, gain, tkError,
                   finalBuffer>>
    /\ UNCHANGED <<wavVars, cvVars, edVars, mgVars, uiVars>>

\* Lines 105-114: the segments are merged.
MergeSegments ==
    /\ tkPc = "scanned"
    /\ mergedSegments' = mergeOverlapping(nonSilentSegments)
    /\ nonSilentSegments' = SegmentsAfterMerge(nonSilentSegments)
    /\ tkPc' = "merged"
    /\ UNCHANGED <<sourceBuffer, silenceThreshold, scanI, segmentStart,
                   shouldRemoveSilence, shouldNormalize, playbackSpeed, newBuffer,
                   composeK, offset, currentBuffer, gain, tkError, finalBuffer>>
    /\ UNCHANGED <<wavVars, cvVars, edVars, mgVars, uiVars>>

\* Lines 116-119, 129-134: the new buffer is made, or, with nothing to copy,
\* the output is one silent frame.
ComposeStart ==
    /\ tkPc = "merged"
    /\ IF Len(mergedSegments) > 0 /\ TotalLength(mergedSegments, 1) > 0
       THEN /\ newBuffer' = createBuffer(currentBuffer.numberOfChannels,
                                         TotalLength(mergedSegments, 1),
                                         currentBuffer.sampleRate)
            /\ offset' = 0 /\ composeK' = 1
            /\ tkPc' = "compose"
            /\ UNCHANGED currentBuffer
       ELSE /\ currentBuffer' = EmptyOutput(currentBuffer)
            /\ tkPc' = "silenceDone"
            /\ UNCHANGED <<newBuffer, offset, composeK>>
    /\ UNCHANGED <<sourceBuffer, silenceThreshold, scanI, segmentStart,
                   nonSilentSegments, shouldRemoveSilence, shouldNormalize,
                   playbackSpeed, mergedSegments, gain, tkError, finalBuffer>>
    /\ UNCHANGED <<wavVars, cvVars, edVars, mgVars, uiVars>>

\* Lines 120-127: one turn of the loop over mergedSegments.
ComposeSegment ==
    /\ tkPc = "compose"
    /\ composeK <= Len(mergedSegments)
    /\ newBuffer' = CopySegment(currentBuffer, newBuffer, mergedSegments[composeK], offset)
    /\ offset' = offset + (mergedSegments[composeK].end - mergedSegments[composeK].start)
    /\ composeK' = composeK + 1
    /\ UNCHANGED <<sourceBuffer, silenceThreshold, scanI, segmentStart,
                   nonSilentSegments, tkPc, shouldRemoveSilence, shouldNormalize,
                   playbackSpeed, mergedSegments, currentBuffer, gain, tkError,
                   finalBuffer>>
    /\ UNCHANGED <<wavVars, cvVars, edVars, mgVars, uiVars>>

\* Line 128: currentBuffer = newBuffer.
ComposeEnd ==
    /\ tkPc = "compose"
    /\ composeK > Len(mergedSegments)
    /\ currentBuffer' = newBuffer
    /\ tkPc' = "silenceDone"
    /\ UNCHANGED <<sourceBuffer, silenceThreshold, scanI, segmentStart,
                   nonSilentSegments, shouldRemoveSilence, shouldNormalize,
                   playbackSpeed, mergedSegments, newBuffer, composeK, offset,
                   gain, tkError, finalBuffer>>
    /\ UNCHANGED <<wavVars, cvVars, edVars, mgVars, uiVars>>

\* Lines 164-166 and 73-78 with shouldRemoveSilence unset: the click on Apply;
\* the source goes on as it is.
SkipSilence ==
    /\ tkPc = "ready"
    /\ ~isProcessing
    /\ ~shouldRemoveSilence
    /\ isProcessing' = TRUE /\ tkError' = Null
    /\ currentBuffer' = sourceBuffer
    /\ tkPc' = "silenceDone"
    /\ UNCHANGED <<sourceBuffer, silenceThreshold, scanI, segmentStart,
                   nonSilentSegments, shouldRemoveSilence, shouldNormalize,
                   playbackSpeed, mergedSegments, newBuffer, composeK, offset,
                   gain, finalBuffer>>
    /\ UNCHANGED <<tkFile, previewUrl, decodes, wavBlob, tkTimers>>
    /\ UNCHANGED <<wavVars, cvVars, edVars, mgVars, cuVars, dgVars, apVars, clVars>>

\* Lines 137-159, shouldNormalize being set.  When the gain is needed, the
\* connect of line 154 throws, processAudio rejects, the catch of lines
\* 193-195 shows the error and the finally of lines 196-198 ends the
\* processing: no buffer comes out.
Normalize ==
    /\ tkPc = "silenceDone"
    /\ shouldNormalize
    /\ LET maxAmp == MaxAmp(currentBuffer, 1, 0)
       IN  IF NeedsGain(maxAmp)
           THEN /\ gain' = GainFor(maxAmp)
                /\ IF ConnectThrows(SourceNodeContext, GainNodeContext)
                   THEN /\ tkError' = "Failed to apply effects"
                        /\ tkTimers' = tkTimers + 1
                        /\ tkPc' = "failed"
                        /\ isProcessing' = FALSE
                        /\ UNCHANGED currentBuffer
                   ELSE /\ currentBuffer' = ApplyGain(currentBuffer, GainFor(maxAmp))
                        /\ tkPc' = "normalized"
                        /\ UNCHANGED <<tkError, isProcessing, tkTimers>>
           ELSE /\ tkPc' = "normalized"
                /\ UNCHANGED <<gain, tkError, currentBuffer, isProcessing, tkTimers>>
    /\ UNCHANGED <<sourceBuffer, silenceThreshold, scanI, segmentStart,
                   nonSilentSegments, shouldRemoveSilence, shouldNormalize,
                   playbackSpeed, mergedSegments, newBuffer, composeK, offset,
                   finalBuffer>>
    /\ UNCHANGED <<tkFile, previewUrl, decodes, wavBlob>>
    /\ UNCHANGED <<wavVars, cvVars, edVars, mgVars, cuVars, dgVars, apVars, clVars>>

\* Line 137 with shouldNormalize unset.
SkipNormalize ==
    /\ tkPc = "silenceDone"
    /\ ~shouldNormalize
    /\ tkPc' = "normalized"
    /\ UNCHANGED <<sourceBuffer, silenceThreshold, scanI, segmentStart,
                   nonSilentSegments, shouldRemoveSilence, shouldNormalize,
                   playbackSpeed, mergedSegments, newBuffer, composeK, offset,
                   currentBuffer, gain, tkError, finalBuffer>>
    /\ UNCHANGED <<wavVars, cvVars, edVars, mgVars, uiVars>>

\* Line 228: the speed slider is moved, before Apply is clicked.
SetPlaybackSpeed ==
    /\ tkPc = "ready"
    /\ \E speed \in PlaybackSpeeds : playbackSpeed' = speed
    /\ UNCHANGED <<sourceBuffer, silenceThreshold, scanI, segmentStart,
                   nonSilentSegments, tkPc, shouldRemoveSilence, shouldNormalize,
                   mergedSegments, newBuffer, composeK, offset, currentBuffer,
                   gain, tkError, finalBuffer>>
    /\ UNCHANGED <<wavVars, cvVars, edVars, mgVars, uiVars>>

\* Lines 237 and 250: the checkboxes, before Apply is clicked.
ToggleNormalize ==
    /\ tkPc = "ready"
    /\ shouldNormalize' = ~shouldNormalize
    /\ UNCHANGED <<sourceBuffer, silenceThreshold, scanI, segmentStart,
                   nonSilentSegments, tkPc, shouldRemoveSilence, playbackSpeed,
                   mergedSegments, newBuffer, composeK, offset, currentBuffer,
                   gain, tkError, finalBuffer>>
    /\ UNCHANGED <<wavVars, cvVars, edVars, mgVars, uiVars>>

ToggleRemoveSilence ==
    /\ tkPc = "ready"
    /\ shouldRemoveSilence' = ~shouldRemoveSilence
    /\ UNCHANGED <<sourceBuffer, silenceThreshold, scanI, segmentStart,
                   nonSilentSegments, tkPc, shouldNormalize, playbackSpeed,
                   mergedSegments, newBuffer, composeK, offset, currentBuffer,
                   gain, tkError, finalBuffer>>
    /\ UNCHANGED <<wavVars, cvVars, edVars, mgVars, uiVars>>

\* Lines 168-181: the final pass for the speed change.
ApplySpeedOfSource ==
    /\ tkPc = "normalized"
    /\ finalBuffer' = RenderedFormat(sourceBuffer.numberOfChannels,
                                     SpeedFrames(sourceBuffer.length, playbackSpeed),
                                     sourceBuffer.sampleRate)
    /\ tkPc' = "rendered"
    /\ UNCHANGED <<sourceBuffer, silenceThreshold, scanI, segmentStart,
                   nonSilentSegments, shouldRemoveSilence, shouldNormalize,
                   playbackSpeed, mergedSegments, newBuffer, composeK, offset,
                   currentBuffer, gain, tkError>>
    /\ UNCHANGED <<wavVars, cvVars, edVars, mgVars, uiVars>>
ApplySpeed ==
    /\ tkPc = "normalized"
    /\ finalBuffer' = RenderedFormat(currentBuffer.numberOfChannels,
                                     SpeedFrames(currentBuffer.length, playbackSpeed),
                                     currentBuffer.sampleRate)
    /\ tkPc' = "rendered"
    /\ UNCHANGED <<sourceBuffer, silenceThreshold, scanI, segmentStart,
                   nonSilentSegments, shouldRemoveSilence, shouldNormalize,
                   playbackSpeed, mergedSegments, newBuffer, composeK, offset,
                   currentBuffer, gain, tkError>>
    /\ UNCHANGED <<wavVars, cvVars, edVars, mgVars, uiVars>>

\* Lines 183-198: the rendering is serialized by bufferToWave and downloaded,
\* and the processing ends.  The samples of the rendering are the
\* resampler's: of the Blob, the 44 bytes of the header are kept
\* (src/App.tsx:41-55).
DownloadWav ==
    /\ tkPc = "rendered"
    /\ wavBlob' = WriteFields([k \in 1..44 |-> 0], 0,
                      WavHeader(finalBuffer,
                                finalBuffer.length * finalBuffer.numberOfChannels * 2),
                      1).view
    /\ isProcessing' = FALSE
    /\ tkPc' = "downloaded"
    /\ UNCHANGED <<sourceBuffer, silenceThreshold, scanI, segmentStart,
                   nonSilentSegments, shouldRemoveSilence, shouldNormalize,
                   playbackSpeed, mergedSegments, newBuffer, composeK, offset,
                   currentBuffer, gain, tkError, finalBuffer>>
    /\ UNCHANGED <<tkFile, previewUrl, decodes, tkTimers>>
    /\ UNCHANGED <<wavVars, cvVars, edVars, mgVars, cuVars, dgVars, apVars, clVars>>

\* The timer of displayError (lines 30-33), five seconds later.
TkErrorTimerFires ==
    /\ tkTimers > 0
    /\ tkError' = Null
    /\ tkTimers' = tkTimers - 1
    /\ UNCHANGED <<sourceBuffer, silenceThreshold, scanI, segmentStart,
                   nonSilentSegments, tkPc, shouldRemoveSilence, shouldNormalize,
                   playbackSpeed, mergedSegments, newBuffer, composeK, offset,
                   currentBuffer, gain, finalBuffer>>
    /\ UNCHANGED <<tkFile, previewUrl, isProcessing, decodes, wavBlob>>
    /\ UNCHANGED <<wavVars, cvVars, edVars, mgVars, cuVars, dgVars, apVars, clVars>>

\* Silence removal: lines 78-135.
TkNext ==
    StartScan \/ ScanFrame \/ ScanEnd \/ MergeSegments \/ ComposeStart
        \/ ComposeSegment \/ ComposeEnd

\* The lists of segments given to the merge fold alone: any list of up to
\* MaxSegments segments over the frames 0..MaxSegmentFrame.
MaxSegments == 3
MaxSegmentFrame == 4
SegmentsOver(n) == { [start |-> a, end |-> b] : a \in 0..n, b \in 0..n }

TkMergeInit ==
    /\ sourceBuffer = NullBuffer /\ silenceThreshold = -50
    /\ shouldRemoveSilence = TRUE /\ shouldNormalize = FALSE /\ playbackSpeed = SpeedDen
    /\ scanI = 0 /\ segmentStart = -1
    /\ \E n \in 0..MaxSegments :
         \E segments \in [1..n -> SegmentsOver(MaxSegmentFrame)] :
             /\ \A k \in 1..n : segments[k].start < segments[k].end
             /\ nonSilentSegments = segments
    /\ TkIdle
    /\ tkPc = "scanned"

TkMergeNext == MergeSegments

\* The buffers given to the normalizer alone.
MaxNormalizeFrames == 2
NormalizeChannelCounts == {1, 2}
NormalizeSamples == {-125, -50, 0, 25, 100}

TkNormalizeInit ==
    /\ IsBufferOf(sourceBuffer, NormalizeChannelCounts, 1, MaxNormalizeFrames, {44100},
                  NormalizeSamples)
    /\ silenceThreshold = -50
    /\ shouldRemoveSilence = FALSE /\ shouldNormalize = TRUE /\ playbackSpeed = SpeedDen
    /\ TkScanIdle /\ TkIdle
    /\ tkPc = "ready"

TkNormalizeNext == SkipSilence \/ Normalize

\* The buffers given to the speed change alone.
MaxSpeedFrames == 4
SpeedChannelCounts == {1, 2}
SpeedRates == {8000, 44100}

TkSpeedInit ==
    /\ \E c \in SpeedChannelCounts, n \in 1..MaxSpeedFrames, r \in SpeedRates :
          sourceBuffer = CycleBuffer(c, n, r)
    /\ silenceThreshold = -50
    /\ shouldRemoveSilence = FALSE /\ shouldNormalize = FALSE /\ playbackSpeed = SpeedDen
    /\ TkScanIdle /\ TkIdle
    /\ tkPc = "ready"

TkSpeedNext == SetPlaybackSpeed \/ SkipSilence \/ SkipNormalize \/ ApplySpeed

\* The files given to the whole of handleApplyAndDownload: two channels that
\* do not depend on each other, at a rate whose 100 ms are no frame or one
\* frame.  The file is decoded and shown.
MaxPipelineFrames == 2
PipelineRates == {5, 10}
PipelineSamples == << {0, 50, 100}, {10, 100} >>

TkPipelineInit ==
    /\ \E n \in 1..MaxPipelineFrames, r \in PipelineRates :
         \E ch0 \in [1..n -> PipelineSamples[1]], ch1 \in [1..n -> PipelineSamples[2]] :
             sourceBuffer = MakeBuffer(2, n, r, <<ch0, ch1>>)
    /\ silenceThreshold = -20
    /\ shouldRemoveSilence = FALSE /\ shouldNormalize = FALSE /\ playbackSpeed = SpeedDen
    /\ TkScanIdle /\ TkIdle
    /\ tkPc = "ready"
    /\ tkFile = MakeFile("a.wav", "audio/wav", sourceBuffer) /\ previewUrl = "a.wav"
    /\ isProcessing = FALSE /\ decodes = {} /\ wavBlob = <<>> /\ tkTimers = 0

TkPipelineNext ==
    \/ SetPlaybackSpeed \/ ToggleNormalize \/ ToggleRemoveSilence
    \/ StartScan \/ ScanFrame \/ ScanEnd \/ MergeSegments \/ ComposeStart
    \/ ComposeSegment \/ ComposeEnd \/ SkipSilence
    \/ Normalize \/ SkipNormalize \/ ApplySpeed \/ DownloadWav \/ TkErrorTimerFires

----------------------------------------------------------------------------
(* The silence scan: claims *)

\* |sample| of frame k (from 0) of channel 0, and the linear threshold.
Level(k) == IF sourceBuffer.channels[1][k + 1] < 0
            THEN -sourceBuffer.channels[1][k + 1] ELSE sourceBuffer.channels[1][k + 1]
Linear == IF silenceThreshold = -20 THEN SampleDen \div 10 ELSE SampleDen \div 100

\* The last frame before i that is below the threshold (-1: none), and the
\* first frame after q and before i that is above it (-1: none).
LastBelow(i) ==
    IF \E k \in 0..(i - 1) : Level(k) < Linear
    THEN CHOOSE k \in 0..(i - 1) :
            Level(k) < Linear /\ \A j \in (k + 1)..(i - 1) : ~(Level(j) < Linear)
    ELSE -1
FirstAbove(q, i) ==
    IF \E k \in (q + 1)..(i - 1) : Level(k) > Linear
    THEN CHOOSE k \in (q + 1)..(i - 1) :
            Level(k) > Linear /\ \A j \in (q + 1)..(k - 1) : ~(Level(j) > Linear)
    ELSE -1
\* The segment open before frame i (-1: none): it opened at the first frame
\* above the threshold since the last frame below it.
OpenBefore(i) == FirstAbove(LastBelow(i), i)

\* C9: the scan opens a segment at the first frame with |sample| > linear
\* while none is open and closes it at the first later frame with
\* |sample| < linear; a frame with |sample| = linear neither opens nor closes.
C9_ScanOpensAndCloses ==
    tkPc \in {"scan", "scanned"} => segmentStart = OpenBefore(scanI)

C9_Witness ==
    /\ tkPc = "scanned"
    /\ silenceThreshold = -20
    /\ sourceBuffer.channels[1] = <<-10, 50, -10, 0, -10>>
    /\ segmentStart = -1
    /\ Len(nonSilentSegments) = 1

\* The frames before i at which the scan closes a segment.
ClosingFrames(i) == { e \in 0..(i - 1) : Level(e) < Linear /\ OpenBefore(e) # -1 }

\* C10: every segment closed before the end of the buffer, of raw bounds
\* [rawStart, rawEnd), is emitted as start = max(0, rawStart - paddingFrames),
\* end = min(frameCount, rawEnd + paddingFrames), paddingFrames =
\* floor(0.1 * sampleRate); with no padding, 4 silent, 4 loud (0.5) and 4
\* silent frames at threshold 0.1 yield exactly the segment {4, 8}.
C10_ClosedSegmentsPadded ==
    tkPc \in {"scan", "scanned"} =>
        LET pad == sourceBuffer.sampleRate \div 10
            n   == sourceBuffer.length
            closed == ClosingFrames(scanI)
        IN  /\ Len(nonSilentSegments) >= Cardinality(closed)
            /\ tkPc = "scan" => Len(nonSilentSegments) = Cardinality(closed)
            /\ \A e \in closed :
                 LET k == 1 + Cardinality({ x \in closed : x < e })
                     lo == OpenBefore(e) - pad
                     hi == e + pad
                 IN  nonSilentSegments[k] =
                        [start |-> IF lo < 0 THEN 0 ELSE lo,
                         end   |-> IF hi > n THEN n ELSE hi]
            /\ (/\ tkPc = "scanned" /\ pad = 0 /\ silenceThreshold = -20
                /\ sourceBuffer.channels[1] = QuietLoudQuiet)
                 => nonSilentSegments = << [start |-> 4, end |-> 8] >>

C10_Witness ==
    /\ tkPc = "scanned"
    /\ sourceBuffer.channels[1] = QuietLoudQuiet
    /\ sourceBuffer.numberOfChannels = 2
    /\ sourceBuffer.sampleRate \div 10 = 0
    /\ silenceThreshold = -20
    /\ nonSilentSegments = << [start |-> 4, end |-> 8] >>

\* C11: a segment still open when the scan reaches the end of the buffer is
\* emitted with end = frameCount and with its start padded:
\* start = max(0, rawStart - paddingFrames).  (The code emits the raw start.)
C11_TailSegmentPadded ==
    (tkPc = "scanned" /\ segmentStart # -1) =>
        LET pad == sourceBuffer.sampleRate \div 10
        IN  /\ Len(nonSilentSegments) >= 1
            /\ nonSilentSegments[Len(nonSilentSegments)] =
                  [start |-> IF segmentStart - pad < 0 THEN 0 ELSE segmentStart - pad,
                   end   |-> sourceBuffer.length]

----------------------------------------------------------------------------
(* Silence removal, merge and compose: claims *)

\* A buffer of n silent frames.
SilentBuffer(c, n, r) ==
    [numberOfChannels |-> c, length |-> n, sampleRate |-> r,
     channels |-> [k \in 1..c |-> [f \in 1..n |-> 0]]]

\* C12: silence removal never yields a zero-length buffer: its output has at
\* least one frame, and when no sample of channel 0 exceeds the threshold it
\* is exactly one frame of silence with the input's channel count and rate.
C12_NeverZeroLength ==
    tkPc = "silenceDone" =>
        /\ currentBuffer.length >= 1
        /\ \A c \in 1..currentBuffer.numberOfChannels :
              Len(currentBuffer.channels[c]) = currentBuffer.length
        /\ (\A k \in 0..(sourceBuffer.length - 1) : ~(Level(k) > Linear))
              => currentBuffer = SilentBuffer(sourceBuffer.numberOfChannels, 1,
                                              sourceBuffer.sampleRate)

C12_Witness ==
    /\ tkPc = "silenceDone"
    /\ sourceBuffer.numberOfChannels = 2 /\ sourceBuffer.sampleRate = 20
    /\ sourceBuffer.channels[1] = <<0, 1, 0>>
    /\ silenceThreshold = -40
    /\ currentBuffer.channels = << <<0>>, <<0>> >>

\* The frames a list of segments covers, and the frames it copies: one pair
\* for every frame of every segment.
CoveredFrames(segs) ==
    { f \in 0..MaxSegmentFrame + 1 :
        \E k \in 1..Len(segs) : segs[k].start <= f /\ f < segs[k].end }
CopiedFrames(segs) ==
    { p \in (1..Len(segs)) \X (0..MaxSegmentFrame + 1) :
        segs[p[1]].start <= p[2] /\ p[2] < segs[p[1]].end }
AscendingByStart(segs) ==
    \A k \in 1..(Len(segs) - 1) : segs[k].start <= segs[k + 1].start

\* C13: for a list of segments ascending by start, the merged list is
\* ascending and non-overlapping (merged[i].end <= merged[i+1].start) and
\* covers exactly the frames of the input list, none of them twice.
C13_MergedCover ==
    [][ (tkPc = "scanned" /\ tkPc' = "merged" /\ AscendingByStart(nonSilentSegments)) =>
          /\ AscendingByStart(mergedSegments')
          /\ \A i \in 1..(Len(mergedSegments') - 1) :
                mergedSegments'[i].end <= mergedSegments'[i + 1].start
          /\ CoveredFrames(mergedSegments') = CoveredFrames(nonSilentSegments)
          /\ Cardinality(CopiedFrames(mergedSegments'))
                = Cardinality(CoveredFrames(nonSilentSegments))
      ]_vars

\* Reached from the input <<[0,4], [1,2], [3,4]>>.
C13_Witness ==
    /\ tkPc = "merged"
    /\ sourceBuffer = NullBuffer
    /\ mergedSegments = << [start |-> 0, end |-> 4] >>
    /\ nonSilentSegments = << [start |-> 1, end |-> 2], [start |-> 3, end |-> 4] >>

\* C14: the merge is idempotent: merging the merged list again returns it
\* unchanged, for any list of segments.
C14_MergeIdempotent ==
    tkPc = "merged" => mergeOverlapping(mergedSegments) = mergedSegments

\* Reached from the input <<[0,2], [1,3], [3,4]>>, which is merged into two.
C14_Witness ==
    /\ tkPc = "merged"
    /\ sourceBuffer = NullBuffer
    /\ mergedSegments = << [start |-> 0, end |-> 3], [start |-> 3, end |-> 4] >>
    /\ Len(nonSilentSegments) = 2

\* The sum of the lengths of the merged segments before the k-th.
RECURSIVE LengthBefore(_)
LengthBefore(k) ==
    IF k <= 1 THEN 0
    ELSE LengthBefore(k - 1)
            + (mergedSegments[k - 1].end - mergedSegments[k - 1].start)

\* C15: when the merged segments have a total length T > 0, the composed
\* buffer has T frames, the frames of segment k stand at the positions
\* [sum of the lengths before k, that sum + the length of k) of every
\* channel, in source order, and the write offset never exceeds T.
C15_ComposedLayout ==
    (tkPc = "compose" \/ (tkPc = "silenceDone" /\ Len(mergedSegments) > 0)) =>
        LET T == LengthBefore(Len(mergedSegments) + 1)
        IN  /\ T > 0
            /\ newBuffer.length = T
            /\ newBuffer.numberOfChannels = sourceBuffer.numberOfChannels
            /\ newBuffer.sampleRate = sourceBuffer.sampleRate
            /\ offset = LengthBefore(composeK)
            /\ offset <= T
            /\ \A c \in 1..sourceBuffer.numberOfChannels :
                  /\ Len(newBuffer.channels[c]) = T
                  /\ \A k \in 1..(composeK - 1) :
                       \A i \in 1..(mergedSegments[k].end - mergedSegments[k].start) :
                           newBuffer.channels[c][LengthBefore(k) + i]
                               = sourceBuffer.channels[c][mergedSegments[k].start + i]
            /\ tkPc = "silenceDone" =>
                  /\ composeK = Len(mergedSegments) + 1
                  /\ offset = T
                  /\ currentBuffer = newBuffer

C15_Witness ==
    /\ tkPc = "silenceDone"
    /\ sourceBuffer.channels = << <<50, 0, -10, 50>>, <<-50, 0, 10, -50>> >>
    /\ sourceBuffer.sampleRate = 5
    /\ silenceThreshold = -40
    /\ mergedSegments = << [start |-> 0, end |-> 1], [start |-> 2, end |-> 4] >>
    /\ currentBuffer.channels = << <<50, -10, 50>>, <<-50, 10, -50>> >>

----------------------------------------------------------------------------
(* Normalization and speed change: claims *)

\* The peak of a buffer: the largest |sample| over all channels and frames.
Magnitudes(b) ==
    { IF b.channels[c][f] < 0 THEN -b.channels[c][f] ELSE b.channels[c][f] :
        c \in 1..b.numberOfChannels, f \in 1..b.length }
Peak(b) == CHOOSE m \in Magnitudes(b) \cup {0} : \A x \in Magnitudes(b) : x <= m

\* C18: normalization returns its input unchanged whenever the peak is 0 or
\* is >= 1.0; a gain is applied only when 0 < peak < 1.
C18_UnchangedAtPeakZeroOrOne ==
    (shouldNormalize /\ tkPc \in {"normalized", "failed"}) =>
        /\ (Peak(sourceBuffer) = 0 \/ Peak(sourceBuffer) >= SampleDen) =>
              /\ tkPc = "normalized"
              /\ currentBuffer = sourceBuffer
              /\ gain = NullGain
              /\ tkError = Null
        /\ gain # NullGain =>
              (0 < Peak(sourceBuffer) /\ Peak(sourceBuffer) < SampleDen)

C18_Witness ==
    /\ shouldNormalize /\ tkPc = "normalized"
    /\ sourceBuffer.channels = << <<25, 0>>, <<-50, 100>> >>
    /\ currentBuffer = sourceBuffer
    /\ gain = NullGain

\* C19: for a non-silent buffer with peak < 1.0 normalization yields a buffer
\* of peak exactly 1, every sample multiplied by 1/peak, which a second
\* normalization returns unchanged.  (In the code the gain node belongs to
\* another context than the source node: connecting them throws and no
\* normalized buffer comes out.)
C19_NormalizedPeakIsOne ==
    (/\ shouldNormalize /\ tkPc \in {"normalized", "failed"}
     /\ 0 < Peak(sourceBuffer) /\ Peak(sourceBuffer) < SampleDen) =>
        /\ tkPc = "normalized"
        /\ currentBuffer.numberOfChannels = sourceBuffer.numberOfChannels
        /\ currentBuffer.length = sourceBuffer.length
        /\ Peak(currentBuffer) = SampleDen
        /\ \A c \in 1..sourceBuffer.numberOfChannels, f \in 1..sourceBuffer.length :
              currentBuffer.channels[c][f] * Peak(sourceBuffer)
                  = sourceBuffer.channels[c][f] * SampleDen

----------------------------------------------------------------------------
(* The whole of handleApplyAndDownload: claims *)

\* The steps from one stage to the next.
StageOrder ==
    { <<"ready", "scan">>, <<"ready", "silenceDone">>, <<"scan", "scanned">>,
      <<"scanned", "merged">>, <<"merged", "compose">>, <<"merged", "silenceDone">>,
      <<"compose", "silenceDone">>, <<"silenceDone", "normalized">>,
      <<"silenceDone", "failed">>, <<"normalized", "rendered">>,
      <<"rendered", "downloaded">> }

\* C21: the stages run in the order silence removal, normalization, speed
\* change, WAV serialization, whichever are enabled, and each consumes the
\* output of the one before: the silence stage runs exactly when it is
\* enabled and hands on the composed buffer (or the source, when disabled);
\* the peak that decides the normalization is that of the buffer the silence
\* stage handed on; the frame count of the speed change is the ceiling of the
\* length of the buffer the normalization handed on over the speed; and the
\* WAV header describes the rendered buffer.
C21_StagesInOrder ==
    [][ /\ tkPc' # tkPc => <<tkPc, tkPc'>> \in StageOrder
        /\ (tkPc = "ready" /\ tkPc' # tkPc) =>
               (tkPc' = "scan") = shouldRemoveSilence
        /\ (tkPc # "silenceDone" /\ tkPc' = "silenceDone") =>
               IF shouldRemoveSilence
               THEN /\ currentBuffer'.length
                          = Max(1, LengthBefore(Len(mergedSegments) + 1))
                    /\ currentBuffer'.numberOfChannels = sourceBuffer.numberOfChannels
                    /\ currentBuffer'.sampleRate = sourceBuffer.sampleRate
               ELSE currentBuffer' = sourceBuffer
        /\ (tkPc = "silenceDone" /\ tkPc' = "normalized") =>
               /\ shouldNormalize =>
                      (Peak(currentBuffer) = 0 \/ Peak(currentBuffer) >= SampleDen)
               /\ currentBuffer' = currentBuffer
        /\ (tkPc = "silenceDone" /\ tkPc' = "failed") =>
               /\ shouldNormalize
               /\ 0 < Peak(currentBuffer) /\ Peak(currentBuffer) < SampleDen
               /\ gain' = [num |-> SampleDen, den |-> Peak(currentBuffer)]
        /\ (tkPc = "normalized" /\ tkPc' = "rendered") =>
               /\ finalBuffer'.length * playbackSpeed >= currentBuffer.length * SpeedDen
               /\ (finalBuffer'.length - 1) * playbackSpeed
                      < currentBuffer.length * SpeedDen
               /\ finalBuffer'.numberOfChannels = currentBuffer.numberOfChannels
               /\ finalBuffer'.sampleRate = currentBuffer.sampleRate
        /\ (tkPc = "rendered" /\ tkPc' = "downloaded") =>
               /\ Len(wavBlob') = 44
               /\ U16At(wavBlob', 22) = finalBuffer.numberOfChannels
               /\ U32At(wavBlob', 24) = finalBuffer.sampleRate
               /\ U32At(wavBlob', 40)
                      = finalBuffer.length * finalBuffer.numberOfChannels * 2
      ]_vars

\* Two frames of which the silence stage keeps the first, whose peak is 1.0:
\* at speed 1 one frame is rendered and serialized, not two.
C21_Witness ==
    /\ tkPc = "downloaded"
    /\ shouldRemoveSilence /\ shouldNormalize /\ playbackSpeed = SpeedDen
    /\ sourceBuffer.channels = << <<100, 0>>, <<10, 100>> >>
    /\ sourceBuffer.sampleRate = 5
    /\ currentBuffer.channels = << <<100>>, <<10>> >>
    /\ finalBuffer.length = 1
    /\ U32At(wavBlob, 40) = 4

\* C24: the segment list the scan emits, before the merge, is well formed:
\* every segment satisfies 0 <= start < end <= frameCount, and the starts
\* never decrease in scan order (two segments may both start at 0, where the
\* padding is clamped).
C24_SegmentsWellFormed ==
    tkPc \in {"scan", "scanned"} =>
        /\ \A k \in 1..Len(nonSilentSegments) :
              /\ 0 <= nonSilentSegments[k].start
              /\ nonSilentSegments[k].start < nonSilentSegments[k].end
              /\ nonSilentSegments[k].end <= sourceBuffer.length
        /\ \A k \in 1..(Len(nonSilentSegments) - 1) :
              nonSilentSegments[k].start <= nonSilentSegments[k + 1].start

\* Two bursts within the padding of the start and of the end of the buffer.
C24_Witness ==
    /\ tkPc = "scanned"
    /\ sourceBuffer.channels[1] = <<50, 0, 50, 0>>
    /\ sourceBuffer.sampleRate = 20 /\ silenceThreshold = -20
    /\ nonSilentSegments = << [start |-> 0, end |-> 3], [start |-> 0, end |-> 4] >>

\* The segments the scan of lines 84-102 emits for the buffer cb at the
\* threshold dB, from frame i on with the loop state st.
RECURSIVE ScanFrom(_, _, _, _)
ScanFrom(cb, dB, i, st) ==
    IF i >= Len(AnalyzedChannel(cb))
    THEN IF st.segmentStart # -1
         THEN Append(st.segments,
                     [start |-> st.segmentStart, end |-> Len(AnalyzedChannel(cb))])
         ELSE st.segments
    ELSE ScanFrom(cb, dB, i + 1,
                  ScanFrameStep(AnalyzedChannel(cb), LinearThreshold(dB),
                                PaddingSamples(cb.sampleRate), i, st))

\* The buffers that share channel 0 and the rate of b: b with any other
\* second channel, and channel 0 alone.
SameChannelZero(b) ==
    { [b EXCEPT !.channels[2] = ch1] : ch1 \in [1..b.length -> PipelineSamples[2]] }
        \cup { MakeBuffer(1, b.length, b.sampleRate, << b.channels[1] >>) }

\* The frames of the segments k.. of a channel, one after the other.
RECURSIVE Cut(_, _, _)
Cut(channel, segs, k) ==
    IF k > Len(segs) THEN <<>>
    ELSE SubSeq(channel, segs[k].start + 1, segs[k].end) \o Cut(channel, segs, k + 1)

\* C23: the segments depend on channel 0 only: every buffer with the same
\* channel 0, rate and threshold, whatever its other channels, yields the
\* segment list this scan ended with; and every channel of the output is
\* the frames of its source channel at those same (merged) segments.
C23_ChannelZeroOnly ==
    /\ tkPc = "scanned" =>
          \A other \in SameChannelZero(sourceBuffer) :
              ScanFrom(other, silenceThreshold, 0,
                       [segmentStart |-> -1, segments |-> <<>>]) = nonSilentSegments
    /\ (tkPc = "silenceDone" /\ shouldRemoveSilence /\ Len(mergedSegments) > 0) =>
          \A c \in 1..sourceBuffer.numberOfChannels :
              currentBuffer.channels[c] = Cut(sourceBuffer.channels[c], mergedSegments, 1)

\* Channel 1 is loud where channel 0 is silent: that frame is cut from both.
C23_Witness ==
    /\ tkPc = "silenceDone" /\ shouldRemoveSilence
    /\ sourceBuffer.channels = << <<50, 0>>, <<10, 100>> >>
    /\ sourceBuffer.sampleRate = 5
    /\ mergedSegments = << [start |-> 0, end |-> 1] >>
    /\ currentBuffer.channels = << <<50>>, <<10>> >>

----------------------------------------------------------------------------
(* AudioToolkit, the file being edited:                                    *)
(* src/components/AudioToolkit.tsx:30-70, 201-203, 287                      *)

\* The files offered to the toolkit: three that decode, one that does not,
\* and one that is no audio file.
ToolkitFiles ==
    { MakeFile("a.wav", "audio/wav", CycleBuffer(1, 1, 8000)),
      MakeFile("b.mp3", "audio/mpeg", CycleBuffer(2, 2, 44100)),
      MakeFile("c.wav", "audio/wav", CycleBuffer(1, 2, 44100)),
      MakeFile("broken.wav", "audio/wav", NullBuffer),
      MakeFile("notes.txt", "text/plain", NullBuffer) }

\* At most this many decodes and error timers are pending at once.
MaxToolkitPending == 2

TkFileInit ==
    /\ sourceBuffer = NullBuffer /\ silenceThreshold = -50
    /\ shouldRemoveSilence = FALSE /\ shouldNormalize = FALSE /\ playbackSpeed = SpeedDen
    /\ TkScanIdle /\ TkIdle
    /\ tkPc = "off"
    /\ tkFile = NoFile /\ previewUrl = Null /\ isProcessing = FALSE /\ decodes = {}
    /\ wavBlob = <<>> /\ tkTimers = 0

\* What the actions on the file leave alone.
TkFileFrame ==
    /\ UNCHANGED <<scanI, segmentStart, nonSilentSegments, tkPc, mergedSegments,
                   newBuffer, composeK, offset, currentBuffer, gain, finalBuffer,
                   wavBlob>>
    /\ UNCHANGED <<wavVars, cvVars, edVars, mgVars, cuVars, dgVars, apVars, clVars>>

\* handleFileSelect, lines 35-45, up to the first await: the Uploader is
\* rendered only while file is null (line 201).
TkHandleFileSelect ==
    /\ tkFile = NoFile
    /\ tkTimers + Cardinality(decodes) < MaxToolkitPending
    /\ \E selectedFile \in ToolkitFiles :
         IF ~IsAudioType(selectedFile.type)
         THEN /\ tkError' = "Please upload a valid audio file."
              /\ tkTimers' = tkTimers + 1
              /\ UNCHANGED <<tkFile, isProcessing, decodes>>
         ELSE /\ tkFile' = selectedFile
              /\ tkError' = Null
              /\ isProcessing' = TRUE
              /\ decodes' = decodes \cup {selectedFile}
              /\ UNCHANGED tkTimers
    /\ UNCHANGED <<sourceBuffer, previewUrl, silenceThreshold, shouldRemoveSilence,
                   shouldNormalize, playbackSpeed>>
    /\ TkFileFrame

\* Lines 46-49 and 55-57: decodeAudioData resolves for a file selected
\* earlier; nothing compares that file with the file now shown.
TkDecodeResolves ==
    /\ \E selectedFile \in decodes :
         /\ selectedFile.audio # NullBuffer
         /\ sourceBuffer' = selectedFile.audio
         /\ previewUrl' = selectedFile.name
         /\ decodes' = decodes \ {selectedFile}
    /\ isProcessing' = FALSE
    /\ UNCHANGED <<tkFile, tkError, tkTimers, silenceThreshold, shouldRemoveSilence,
                   shouldNormalize, playbackSpeed>>
    /\ TkFileFrame

\* Lines 50-57: decodeAudioData rejects.
TkDecodeRejects ==
    /\ \E selectedFile \in decodes :
         /\ selectedFile.audio = NullBuffer
         /\ decodes' = decodes \ {selectedFile}
    /\ tkError' = "Could not process the audio file. It may be corrupted."
    /\ tkTimers' = tkTimers + 1
    /\ tkFile' = NoFile
    /\ sourceBuffer' = NullBuffer
    /\ isProcessing' = FALSE
    /\ UNCHANGED <<previewUrl, silenceThreshold, shouldRemoveSilence, shouldNormalize,
                   playbackSpeed>>
    /\ TkFileFrame

\* resetAll, lines 60-70: Start Over (line 287) is enabled whenever a file
\* is shown; a decode in flight goes on.
ResetAll ==
    /\ tkFile # NoFile
    /\ tkFile' = NoFile
    /\ sourceBuffer' = NullBuffer
    /\ previewUrl' = Null
    /\ tkError' = Null
    /\ isProcessing' = FALSE
    /\ playbackSpeed' = SpeedDen
    /\ shouldNormalize' = FALSE
    /\ shouldRemoveSilence' = FALSE
    /\ silenceThreshold' = -50
    /\ UNCHANGED <<decodes, tkTimers>>
    /\ TkFileFrame

TkFileNext ==
    TkHandleFileSelect \/ TkDecodeResolves \/ TkDecodeRejects \/ ResetAll
        \/ TkErrorTimerFires

\* C25: whenever a file is shown for editing and no decode is in flight, the
\* stored sourceBuffer and the preview are the decode of that same file,
\* whatever the interleaving of selections, Start Over and decode
\* completions.  (The code lets the decode of an earlier file complete after
\* Start Over and a new selection, and stores its buffer.)
C25_BufferOfShownFile ==
    (tkFile # NoFile /\ decodes = {}) =>
        /\ sourceBuffer = tkFile.audio
        /\ previewUrl = tkFile.name

----------------------------------------------------------------------------
(* Merger.handleMerge: src/components/Loader.tsx:92-146 *)

\* error = null, and the errors displayError is called with: the file named
\* by the format error is files[index].
NullError == [kind |-> Null, index |-> -1]
FormatError(i) == [kind |-> "different format", index |-> i]
CorruptError == [kind |-> "failed to merge", index |-> -1]

\* Line 113: buffers[i] differs from the first buffer in channel count or rate.
Differs(bs, i) ==
    \/ bs[i + 1].numberOfChannels # bs[1].numberOfChannels
    \/ bs[i + 1].sampleRate # bs[1].sampleRate

\* Lines 112-118: the loop from i on; the index at which it returns, or -1
\* when it runs to its end.
RECURSIVE LastMismatch(_, _)
LastMismatch(bs, i) ==
    IF i >= Len(bs) THEN -1
    ELSE IF LastMismatch(bs, i + 1) # -1 THEN LastMismatch(bs, i + 1)
    ELSE IF Differs(bs, i) THEN i ELSE -1
RECURSIVE FirstMismatch(_, _)
FirstMismatch(bs, i) ==
    IF i >= Len(bs) THEN -1
    ELSE IF Differs(bs, i) THEN i
    ELSE FirstMismatch(bs, i + 1)

\* Line 120: buffers.reduce((acc, buffer) => acc + buffer.length, 0).
RECURSIVE TotalFrames(_, _)
TotalFrames(bs, k) ==
    IF k > Len(bs) THEN 0 ELSE bs[k].length + TotalFrames(bs, k + 1)

\* Lines 123-129: the loop over buffers k.., writing at off.
RECURSIVE ConcatLoopInPlace(_, _, _, _)
ConcatLoopInPlace(bs, k, nb, off) ==
    IF k > Len(bs) THEN nb
    ELSE ConcatLoopInPlace(bs, k + 1,
            [nb EXCEPT !.channels =
                [channel \in 1..nb.numberOfChannels |->
                    setAt(nb.channels[channel], bs[k].channels[channel], off)]],
            off)
RECURSIVE ConcatLoop(_, _, _, _)
ConcatLoop(bs, k, nb, off) ==
    IF k > Len(bs) THEN nb
    ELSE ConcatLoop(bs, k + 1,
            [nb EXCEPT !.channels =
                [channel \in 1..nb.numberOfChannels |->
                    setAt(nb.channels[channel], bs[k].channels[channel], off)]],
            off + bs[k].length)

\* Lines 109-129, past the format check: newBuffer.
Concatenate(bs) ==
    ConcatLoop(bs, 1,
               createBuffer(bs[1].numberOfChannels, TotalFrames(bs, 1), bs[1].sampleRate),
               0)

\* Lines 103-107: the files decode one after the other, up to the first that
\* does not.
Decodes(fs) == \A k \in 1..Len(fs) : fs[k] # Corrupt
DecodedPrefix(fs) ==
    IF Decodes(fs) THEN fs
    ELSE SubSeq(fs, 1, (CHOOSE k \in 1..Len(fs) :
                           fs[k] = Corrupt /\ \A j \in 1..(k - 1) : fs[j] # Corrupt) - 1)

\* The files of the list: what each decodes to, or a file that does not
\* decode.  Two mono files of 100 and 50 frames at 8000 Hz are among them.
MaxMergeFiles == 3
MaxMergeFrames == 2
MaxMergeTimers == 1
MergeChannelCounts == {1, 2}
MergeRates == {8000, 44100}
MergeFiles ==
    { CycleBuffer(c, n, r) :
        c \in MergeChannelCounts, n \in 1..MaxMergeFrames, r \in MergeRates }
        \cup {Corrupt}
HundredAndFifty == << CycleBuffer(1, 100, 8000), CycleBuffer(1, 50, 8000) >>

MgInit ==
    /\ \/ \E n \in 2..MaxMergeFiles :
            \E fs \in [1..n -> MergeFiles] : files = fs
       \/ files = HundredAndFifty
    /\ isMerging = FALSE /\ mergeError = NullError /\ mergeTimers = 0
    /\ buffers = <<>> /\ mergedBuffer = NullBuffer
    /\ mgPc = "idle"

\* Lines 92-100: the click on Merge (the button is disabled while merging and
\* with fewer than two files), up to the first await.
HandleMerge ==
    /\ mgPc = "idle"
    /\ ~isMerging /\ Len(files) >= 2
    /\ mergeTimers < MaxMergeTimers
    /\ isMerging' = TRUE
    /\ mergeError' = NullError
    /\ buffers' = <<>>
    /\ mgPc' = "decoding"
    /\ UNCHANGED <<files, mergeTimers, mergedBuffer>>
    /\ UNCHANGED <<wavVars, cvVars, edVars, tkVars, uiVars>>

\* Lines 103-107 throw: a file does not decode; the catch of lines 140-142
\* and the finally of lines 143-145.
MergeDecodeFails ==
    /\ mgPc = "decoding"
    /\ ~Decodes(files)
    /\ buffers' = DecodedPrefix(files)
    /\ mergeError' = CorruptError
    /\ mergeTimers' = mergeTimers + 1
    /\ isMerging' = FALSE
    /\ mgPc' = "idle"
    /\ UNCHANGED <<files, mergedBuffer>>
    /\ UNCHANGED <<wavVars, cvVars, edVars, tkVars, uiVars>>

\* Lines 103-118: every file decodes and the format check returns.
MergeFormatMismatch ==
    /\ mgPc = "decoding"
    /\ Decodes(files)
    /\ FirstMismatch(files, 1) # -1
    /\ buffers' = files
    /\ mergeError' = FormatError(FirstMismatch(files, 1))
    /\ mergeTimers' = mergeTimers + 1
    /\ isMerging' = FALSE
    /\ mgPc' = "idle"
    /\ UNCHANGED <<files, mergedBuffer>>
    /\ UNCHANGED <<wavVars, cvVars, edVars, tkVars, uiVars>>

\* Lines 103-145: every file decodes, the formats agree, the buffers are
\* concatenated and the result is downloaded.
MergeConcatenates ==
    /\ mgPc = "decoding"
    /\ Decodes(files)
    /\ FirstMismatch(files, 1) = -1
    /\ buffers' = files
    /\ mergedBuffer' = Concatenate(files)
    /\ isMerging' = FALSE
    /\ mgPc' = "idle"
    /\ UNCHANGED <<files, mergeError, mergeTimers>>
    /\ UNCHANGED <<wavVars, cvVars, edVars, tkVars, uiVars>>

\* The timer of displayError (lines 54-57), five seconds later.
MergeErrorTimerFires ==
    /\ mergeTimers > 0
    /\ mergeError' = NullError
    /\ mergeTimers' = mergeTimers - 1
    /\ UNCHANGED <<files, isMerging, buffers, mergedBuffer, mgPc>>
    /\ UNCHANGED <<wavVars, cvVars, edVars, tkVars, uiVars>>

MgNext ==
    HandleMerge \/ MergeDecodeFails \/ MergeFormatMismatch \/ MergeConcatenates
        \/ MergeErrorTimerFires

----------------------------------------------------------------------------
(* Merger, the file list and its reordering:                               *)
(* src/components/Loader.tsx:59-90, 146-181, 196-198                        *)

\* What newFiles[i] is beyond the end of the array.
UndefinedItem == MakeBuffer(-1, 0, 0, <<>>)

\* The files the user picks from.
ListFiles ==
    { MakeFile("a.wav", "audio/wav", CycleBuffer(1, 1, 8000)),
      MakeFile("b.wav", "audio/wav", CycleBuffer(1, 2, 8000)),
      MakeFile("c.mp3", "audio/mpeg", CycleBuffer(2, 1, 44100)),
      MakeFile("notes.txt", "text/plain", Corrupt) }
IgnoredError == [kind |-> "some files ignored", index |-> -1]

\* Array.prototype.splice(start, 1) and splice(start, 0, item), start given
\* from 0: a start beyond the end is the end.
SpliceOut(arr, start) ==
    IF start < Len(arr)
    THEN SubSeq(arr, 1, start) \o SubSeq(arr, start + 2, Len(arr))
    ELSE arr
SpliceIn(arr, start, item) ==
    LET k == Min(start, Len(arr))
    IN  SubSeq(arr, 1, k) \o <<item>> \o SubSeq(arr, k + 1, Len(arr))
ItemAt(arr, i) == IF i < Len(arr) THEN arr[i + 1] ELSE UndefinedItem

\* Lines 59-72: Array.from(selectedFiles).filter(audio).
RECURSIVE AudioItems(_, _)
AudioItems(selectedFiles, k) ==
    IF k > Len(selectedFiles) THEN <<>>
    ELSE (IF IsAudioType(selectedFiles[k].type) THEN <<selectedFiles[k].audio>> ELSE <<>>)
            \o AudioItems(selectedFiles, k + 1)

\* The list renders item.id and item.file.name of every entry (lines 168-177).
Renders == \A k \in 1..Len(files) : files[k] # UndefinedItem

\* The state after construction, lines 41-48.
FlInit ==
    /\ files = <<>> /\ isMerging = FALSE /\ mergeError = NullError /\ mergeTimers = 0
    /\ buffers = <<>> /\ mergedBuffer = NullBuffer /\ mgPc = "idle"
    /\ dragItem = -1 /\ dragOverItem = -1 /\ drag = "none"

FlFrame ==
    /\ UNCHANGED <<isMerging, buffers, mergedBuffer, mgPc>>
    /\ UNCHANGED <<wavVars, cvVars, edVars, tkVars, tuVars, cuVars, apVars, clVars>>

\* handleFileSelect, lines 59-72.  The file input and the upload area exist
\* only while the list is empty (lines 147-160): the input that Add More
\* clicks (line 190) is not mounted beside the list.
MgHandleFileSelect ==
    /\ files = <<>>
    /\ drag = "none"
    /\ \E n \in 1..MaxMergeFiles :
       \E selectedFiles \in [1..n -> ListFiles] :
         LET newFiles == AudioItems(selectedFiles, 1)
         IN  /\ files' = files \o newFiles
             /\ IF Len(newFiles) # Len(selectedFiles)
                THEN /\ mergeTimers < MaxMergeTimers
                     /\ mergeError' = IgnoredError
                     /\ mergeTimers' = mergeTimers + 1
                ELSE UNCHANGED <<mergeError, mergeTimers>>
    /\ UNCHANGED <<dragItem, dragOverItem, drag>>
    /\ FlFrame

\* handleDragStart, lines 74-76: the user starts to drag the row at position.
HandleDragStart ==
    /\ Renders
    /\ drag = "none"
    /\ \E position \in 0..(Len(files) - 1) : dragItem' = position
    /\ drag' = "item"
    /\ UNCHANGED <<files, mergeError, mergeTimers, dragOverItem>>
    /\ FlFrame

\* handleDragEnter, lines 78-80: the pointer of a drag enters the row at
\* position.  The drag is that of a row, or of something from outside the
\* list (a file of the desktop, a selection of text), which starts no
\* handleDragStart.
HandleDragEnter ==
    /\ Renders
    /\ \E position \in 0..(Len(files) - 1) : dragOverItem' = position
    /\ drag' = IF drag = "none" THEN "foreign" ELSE drag
    /\ UNCHANGED <<files, mergeError, mergeTimers, dragItem>>
    /\ FlFrame

\* handleDrop, lines 82-90: the drop on the list (line 167).
HandleDrop ==
    /\ Renders
    /\ drag # "none"
    /\ drag' = "none"
    /\ IF dragItem = -1 \/ dragOverItem = -1
       THEN UNCHANGED <<files, dragItem, dragOverItem>>
       ELSE LET dragItemContent == ItemAt(files, dragItem)
            IN  /\ files' = SpliceIn(SpliceOut(files, dragItem), dragOverItem,
                                     dragItemContent)
                /\ dragItem' = -1
                /\ dragOverItem' = -1
    /\ UNCHANGED <<mergeError, mergeTimers>>
    /\ FlFrame

\* The drag ends without a drop on the list (Escape, or a drop elsewhere):
\* the rows have no onDragEnd (lines 169-174), so nothing runs.
DragCancelled ==
    /\ drag # "none"
    /\ drag' = "none"
    /\ UNCHANGED <<files, mergeError, mergeTimers, dragItem, dragOverItem>>
    /\ FlFrame

\* Line 177: the x of a row; ids are unique, so the filter drops that row.
RemoveFile ==
    /\ Renders
    /\ drag = "none"
    /\ \E index \in 0..(Len(files) - 1) : files' = SpliceOut(files, index)
    /\ UNCHANGED <<mergeError, mergeTimers, dragItem, dragOverItem, drag>>
    /\ FlFrame

\* Line 196: Clear All.
ClearAll ==
    /\ Renders
    /\ files # <<>>
    /\ drag = "none"
    /\ files' = <<>>
    /\ UNCHANGED <<mergeError, mergeTimers, dragItem, dragOverItem, drag>>
    /\ FlFrame

\* The timer of displayError (lines 54-57) beside the list.
FlErrorTimerFires ==
    /\ mergeTimers > 0
    /\ mergeError' = NullError
    /\ mergeTimers' = mergeTimers - 1
    /\ UNCHANGED <<files, dragItem, dragOverItem, drag>>
    /\ FlFrame

FlNext ==
    \/ MgHandleFileSelect \/ HandleDragStart \/ HandleDragEnter \/ HandleDrop
    \/ DragCancelled \/ RemoveFile \/ ClearAll \/ FlErrorTimerFires

\* How many entries of arr are item.
RECURSIVE CountOf(_, _, _)
CountOf(arr, item, k) ==
    IF k > Len(arr) THEN 0
    ELSE (IF arr[k] = item THEN 1 ELSE 0) + CountOf(arr, item, k + 1)

\* C28: a drop that reorders leaves a permutation of the list it found (the
\* same length, every entry a file item, every item as often as before) with
\* the dragged item at the drag-over position, whatever drags, cancelled
\* drags, additions and removals came before.  (A drag item position left by
\* a cancelled drag can lie beyond the end of a list that shrank since.)
C28_DropPermutes ==
    [][ (dragItem # -1 /\ dragOverItem # -1 /\ dragItem' = -1) =>
          /\ Len(files') = Len(files)
          /\ \A k \in 1..Len(files') :
                /\ files'[k] # UndefinedItem
                /\ CountOf(files', files'[k], 1) = CountOf(files, files'[k], 1)
          /\ dragItem < Len(files) /\ dragOverItem < Len(files')
          /\ files'[dragOverItem + 1] = files[dragItem + 1]
      ]_vars

----------------------------------------------------------------------------
(* The merger: claims *)

\* buffers[k] (from 0) has another channel count or rate than buffers[0].
Incompatible(k) ==
    \/ files[k + 1].numberOfChannels # files[1].numberOfChannels
    \/ files[k + 1].sampleRate # files[1].sampleRate
AllDecode == \A k \in 1..Len(files) : files[k] # NullBuffer

\* C16: merging buffers of which one differs from the first in channel count
\* or sample rate fails with an error naming the first such buffer (the lowest
\* index i >= 1), produces no merged output and leaves the merge-in-progress
\* flag false.
C16_FormatMismatchFails ==
    [][ (/\ mgPc = "decoding" /\ mgPc' # "decoding" /\ AllDecode
         /\ \E k \in 1..(Len(files) - 1) : Incompatible(k)) =>
          /\ mergeError'.kind = "different format"
          /\ mergeError'.index >= 1
          /\ Incompatible(mergeError'.index)
          /\ \A j \in 1..(mergeError'.index - 1) : ~Incompatible(j)
          /\ mergedBuffer' = NullBuffer
          /\ isMerging' = FALSE
      ]_vars

C16_Witness ==
    /\ mgPc = "idle"
    /\ Len(files) = 3
    /\ files[1].numberOfChannels = 1 /\ files[2].numberOfChannels = 1
    /\ files[3].numberOfChannels = 2
    /\ files[1].sampleRate = 8000 /\ files[2].sampleRate = 44100
    /\ mergeError = [kind |-> "different format", index |-> 1]
    /\ mergedBuffer = NullBuffer /\ ~isMerging

\* The number of frames of the files before the k-th.
RECURSIVE FramesBefore(_)
FramesBefore(k) ==
    IF k <= 1 THEN 0 ELSE FramesBefore(k - 1) + files[k - 1].length

\* C17: concatenating format-compatible buffers b1..bn yields a buffer of the
\* same channel count and sample rate, of the sum of their frame counts, with
\* the frames of bk at the offsets [frames before k, + bk.frameCount) of every
\* channel, in list order; 100 and 50 mono frames give 150 frames, the first
\* 100 those of the first buffer and the next 50 those of the second.
C17_Concatenation ==
    mergedBuffer # NullBuffer =>
        /\ mergedBuffer.numberOfChannels = files[1].numberOfChannels
        /\ mergedBuffer.sampleRate = files[1].sampleRate
        /\ mergedBuffer.length = FramesBefore(Len(files) + 1)
        /\ \A c \in 1..files[1].numberOfChannels :
              /\ Len(mergedBuffer.channels[c]) = FramesBefore(Len(files) + 1)
              /\ \A k \in 1..Len(files) : \A i \in 1..files[k].length :
                    mergedBuffer.channels[c][FramesBefore(k) + i] = files[k].channels[c][i]
        /\ files = HundredAndFifty =>
              /\ mergedBuffer.length = 150
              /\ SubSeq(mergedBuffer.channels[1], 1, 100) = files[1].channels[1]
              /\ SubSeq(mergedBuffer.channels[1], 101, 150) = files[2].channels[1]

C17_Witness ==
    /\ mgPc = "idle" /\ ~isMerging
    /\ files = HundredAndFifty
    /\ mergedBuffer.numberOfChannels = 1 /\ mergedBuffer.sampleRate = 8000
    /\ mergedBuffer.length = 150

----------------------------------------------------------------------------
CvOff ==
    /\ file = NullBuffer /\ audioBuffer = NullBuffer /\ pcm = <<>> /\ pcmLeft = <<>> /\ pcmRight = <<>>
    /\ encoderCalls = <<>> /\ mp3Data = <<>> /\ status = "idle"
    /\ downloadUrl = NullBlob /\ error = Null /\ timers = <<>>
    /\ closureStatus = "idle" /\ cvPc = "off"
EdOff == buffer = NullBuffer /\ activeRegion = NullRegion /\ clips = <<>> /\ edPc = "off"
TkOff ==
    /\ sourceBuffer = NullBuffer /\ silenceThreshold = -50
    /\ shouldRemoveSilence = FALSE /\ shouldNormalize = FALSE /\ playbackSpeed = SpeedDen
    /\ TkScanIdle /\ TkIdle
    /\ tkPc = "off"

MgOff ==
    /\ files = <<>> /\ isMerging = FALSE /\ mergeError = NullError /\ mergeTimers = 0
    /\ buffers = <<>> /\ mergedBuffer = NullBuffer /\ mgPc = "off"

\* The state of the parts around the buffer engine before they are used.
TuOff ==
    /\ tkFile = NoFile /\ previewUrl = Null /\ isProcessing = FALSE /\ decodes = {}
    /\ wavBlob = <<>> /\ tkTimers = 0
CuOff == fileType = "audio/wav" /\ outputFormat = "mp3" /\ ffmpegRef = FALSE
DgOff == dragItem = -1 /\ dragOverItem = -1 /\ drag = "none"
ApOff ==
    /\ mode = "clipper" /\ appState = "IDLE" /\ appError = Null
    /\ appSourceBuffer = NullBuffer /\ appFile = NoFile
ClOff ==
    /\ selectedClips = <<>> /\ clipsMerging = FALSE /\ clipsError = Null
    /\ mergedClip = NullBuffer
UiOff == TuOff /\ CuOff /\ DgOff /\ ApOff /\ ClOff

InitWav == WavInit /\ CvOff /\ EdOff /\ TkOff /\ MgOff /\ UiOff
SpecWav == InitWav /\ [][WavNext]_vars

InitMp3 == CvInit /\ WavOff /\ EdOff /\ TkOff /\ MgOff /\ UiOff
SpecMp3 == InitMp3 /\ [][CvNext]_vars

InitClip == EdInit /\ WavOff /\ CvOff /\ TkOff /\ MgOff /\ UiOff
SpecClip == InitClip /\ [][EdNext]_vars

InitSilence == TkInit /\ WavOff /\ CvOff /\ EdOff /\ MgOff /\ UiOff
SpecSilence == InitSilence /\ [][TkNext]_vars

InitSegments == TkMergeInit /\ WavOff /\ CvOff /\ EdOff /\ MgOff /\ UiOff
SpecSegments == InitSegments /\ [][TkMergeNext]_vars

InitNormalize == TkNormalizeInit /\ WavOff /\ CvOff /\ EdOff /\ MgOff /\ UiOff
SpecNormalize == InitNormalize /\ [][TkNormalizeNext]_vars

InitSpeed == TkSpeedInit /\ WavOff /\ CvOff /\ EdOff /\ MgOff /\ UiOff
SpecSpeed == InitSpeed /\ [][TkSpeedNext]_vars

InitMerger == MgInit /\ WavOff /\ CvOff /\ EdOff /\ TkOff /\ UiOff
SpecMerger == InitMerger /\ [][MgNext]_vars

\* C26: in the converter a download URL is held only in status 'done': no
\* error timer left over from an earlier failure changes the status after a
\* conversion has succeeded.  (The timer of a failure shown while the status
\* was already 'error' sets the status to 'idle' whatever it is by then.)
C26_DownloadOnlyWhenDone ==
    downloadUrl # NullBlob => status = "done"

\* C27: when the timer of the failure on display fires, the message is
\* cleared and the status goes from 'error' to 'idle'; and a conversion that
\* ends leaves the status 'done' or 'error'.  (The timer of a failure shown
\* from status 'idle' reads 'idle' and leaves the status 'error'.)
C27_ErrorsAreTransient ==
    [][ /\ ( /\ Len(timers) = 1 /\ timers' = <<>>
             /\ status = "error" /\ error # Null )
           => (error' = Null /\ status' = "idle")
        /\ (cvPc # "idle" /\ cvPc' = "idle") => status' \in {"done", "error"}
      ]_vars

----------------------------------------------------------------------------
(* App, the clipper's file and state: src/App.tsx:76-122, 139-187          *)

MaxAppFrames == 3
AppChannelCounts == {1, 2}
AppRates == {8000, 44100}
\* The files handed to the clipper: files that decode, one that does not,
\* one that is no audio.
AppFiles ==
    { MakeFile("clip.wav", "audio/wav", CycleBuffer(c, n, r)) :
        c \in AppChannelCounts, n \in 1..MaxAppFrames, r \in AppRates }
        \cup { MakeFile("broken.mp3", "audio/mpeg", Corrupt),
               MakeFile("notes.txt", "text/plain", Corrupt) }
InvalidFileMessage == "Please upload a valid audio file."
CouldNotProcessMessage == "Could not process the audio file."

\* The state after construction, lines 77-81.
ApInit ==
    /\ mode = "clipper" /\ appState = "IDLE" /\ appError = Null
    /\ appSourceBuffer = NullBuffer /\ appFile = NoFile

ApFrame ==
    UNCHANGED <<wavVars, cvVars, edVars, tkVars, mgVars, tuVars, cuVars, dgVars, clVars>>

\* Lines 176-187: the four mode buttons.
SetMode ==
    /\ \E m \in {"clipper", "merger", "converter", "toolkit"} : mode' = m
    /\ UNCHANGED <<appState, appError, appSourceBuffer, appFile>>
    /\ ApFrame

\* handleFile, lines 99-107, up to the first await.  The Uploader that calls
\* it is rendered in mode clipper in state IDLE, and in state EDITING without
\* a buffer (lines 148-160).
HandleFile(selected) ==
    /\ mode = "clipper"
    /\ appState = "IDLE" \/ (appState = "EDITING" /\ appSourceBuffer = NullBuffer)
    /\ IF ~IsAudioType(selected.type)
       THEN /\ appError' = InvalidFileMessage
            /\ UNCHANGED <<appState, appFile>>
       ELSE /\ appState' = "PROCESSING"
            /\ appError' = Null
            /\ appFile' = selected
    /\ UNCHANGED <<mode, appSourceBuffer>>
    /\ ApFrame

\* The end of a decode that enters EDITING and stores no buffer.
AppDecodeResolvesEarly ==
    /\ appState = "PROCESSING"
    /\ appState' = "EDITING"
    /\ UNCHANGED <<mode, appError, appFile, appSourceBuffer>>
    /\ ApFrame

\* Lines 109-114: decodeAudioData resolves.
AppDecodeResolves ==
    /\ appState = "PROCESSING"
    /\ appFile.audio # Corrupt
    /\ appSourceBuffer' = appFile.audio
    /\ appState' = "EDITING"
    /\ UNCHANGED <<mode, appError, appFile>>
    /\ ApFrame

\* Lines 109-121: arrayBuffer or decodeAudioData rejects.
AppDecodeRejects ==
    /\ appState = "PROCESSING"
    /\ appFile.audio = Corrupt
    /\ appError' = CouldNotProcessMessage
    /\ appState' = "IDLE"
    /\ UNCHANGED <<mode, appSourceBuffer, appFile>>
    /\ ApFrame

\* resetApp, lines 92-97: the editor's onReset (line 152), so in mode
\* clipper in state EDITING with a buffer.
ResetApp ==
    /\ mode = "clipper"
    /\ appState = "EDITING" /\ appSourceBuffer # NullBuffer
    /\ appState' = "IDLE"
    /\ appSourceBuffer' = NullBuffer
    /\ appError' = Null
    /\ appFile' = NoFile
    /\ UNCHANGED mode
    /\ ApFrame

ApNext ==
    \/ SetMode
    \/ \E selected \in AppFiles : HandleFile(selected)
    \/ AppDecodeResolves
    \/ AppDecodeRejects
    \/ ResetApp

\* C29: the clipper is in state EDITING only with a decoded source buffer; a
\* file that is no audio leaves the state as it is and sets the error; a
\* decode that fails leaves PROCESSING for IDLE with the error set; reset
\* leaves EDITING for IDLE with the buffer and the error cleared.
C29_EditingHoldsBuffer ==
    [][ /\ appState' = "EDITING" => appSourceBuffer' # NullBuffer
        /\ (\E selected \in AppFiles :
                ~IsAudioType(selected.type) /\ HandleFile(selected))
              => (appState' = appState /\ appError' # Null)
        /\ (appState = "PROCESSING" /\ appFile.audio = Corrupt /\ appState' # appState)
              => (appState' = "IDLE" /\ appError' # Null)
        /\ (appState = "EDITING" /\ appState' # appState)
              => (appState' = "IDLE" /\ appSourceBuffer' = NullBuffer /\ appError' = Null)
      ]_vars
\* A stereo file of the greatest length was decoded and is being edited.
C29_Witness ==
    /\ appState = "EDITING"
    /\ appFile.audio = CycleBuffer(2, MaxAppFrames, 44100)
    /\ appSourceBuffer = appFile.audio

InitApp == ApInit /\ WavOff /\ CvOff /\ EdOff /\ TkOff /\ MgOff /\ TuOff /\ CuOff /\ DgOff /\ ClOff
SpecApp == InitApp /\ [][ApNext]_vars

----------------------------------------------------------------------------
(* ClipList, the selection and Merge Selected:                             *)
(* src/components/ClipList.tsx:88, 103-122, 168-208, 318-329               *)

MaxListClips == 3
MaxListFrames == 2
\* The clips the list is given: clips cut by handleCreateClip from one
\* source, each a single frame of it or the whole of it.
ClipOf(ob, startIndex, endIndex) ==
    LET newClipBuffer == NewClipBuffer(ob, startIndex, endIndex)
    IN  [url |-> bufferToWave(newClipBuffer, endIndex - startIndex).view,
         buffer |-> newClipBuffer]
ClipsOf(ob) ==
    { ClipOf(ob, a, a + 1) : a \in 0..(ob.length - 1) } \cup { ClipOf(ob, 0, ob.length) }

\* The state after construction, lines 79-89, over a list of clips.
ClInit ==
    /\ buffer = RampBuffer(2, MaxListFrames, 8000)
    /\ \E n \in 2..MaxListClips : clips \in [1..n -> ClipsOf(buffer)]
    /\ activeRegion = NullRegion /\ edPc = "clips"
    /\ selectedClips = <<>> /\ clipsMerging = FALSE /\ clipsError = Null
    /\ mergedClip = NullBuffer

ClFrame ==
    /\ UNCHANGED edVars
    /\ UNCHANGED <<wavVars, cvVars, tkVars, mgVars, tuVars, cuVars, dgVars, apVars>>

Includes(arr, item) == \E k \in 1..Len(arr) : arr[k] = item
RECURSIVE FilterOut(_, _, _)
FilterOut(arr, item, k) ==
    IF k > Len(arr) THEN <<>>
    ELSE (IF arr[k] # item THEN <<arr[k]>> ELSE <<>>) \o FilterOut(arr, item, k + 1)

\* toggleClipSelection, lines 105-113: the click on the row of a clip.
ToggleClipSelection ==
    /\ edPc = "clips"
    /\ \E index \in 0..(Len(clips) - 1) :
         selectedClips' = IF Includes(selectedClips, index)
                          THEN FilterOut(selectedClips, index, 1)
                          ELSE Append(selectedClips, index)
    /\ UNCHANGED <<clipsMerging, clipsError, mergedClip>>
    /\ ClFrame

\* toggleSelectAll, lines 103 and 115-122.
ToggleSelectAll ==
    /\ edPc = "clips"
    /\ LET allClipsSelected == Len(selectedClips) = Len(clips) /\ Len(clips) > 0
           allIndices == [k \in 1..Len(clips) |-> k - 1]
       IN  selectedClips' = IF allClipsSelected THEN <<>> ELSE allIndices
    /\ UNCHANGED <<clipsMerging, clipsError, mergedClip>>
    /\ ClFrame

\* Line 178: selectedClips.map(index => clips[index].buffer).
BuffersToMerge(selected) == [k \in 1..Len(selected) |-> clips[selected[k] + 1].buffer]

\* Merge Selected that writes into the buffer of the first selected clip.
HandleMergeSelectedIntoFirst ==
    /\ edPc = "clips"
    /\ ~clipsMerging
    /\ Len(selectedClips) >= 2
    /\ mergedClip' = Concatenate(BuffersToMerge(selectedClips))
    /\ clips' = [clips EXCEPT ![selectedClips[1] + 1].buffer = mergedClip']
    /\ clipsError' = Null
    /\ clipsMerging' = FALSE
    /\ UNCHANGED <<selectedClips, buffer, activeRegion, edPc>>
    /\ UNCHANGED <<wavVars, cvVars, tkVars, mgVars, tuVars, cuVars, dgVars, apVars>>

\* Merge Selected over the selected clips in the order of the list.
HandleMergeSelectedInListOrder ==
    /\ edPc = "clips"
    /\ ~clipsMerging
    /\ Len(selectedClips) >= 2
    /\ mergedClip' = Concatenate(BuffersToMerge(
                         SortSeq(selectedClips, LAMBDA x, y : x < y)))
    /\ clipsError' = Null
    /\ clipsMerging' = FALSE
    /\ UNCHANGED selectedClips
    /\ ClFrame

\* handleMergeSelected, lines 168-208; it awaits nothing, so it runs to its
\* end in one step.  The button is disabled with fewer than two clips
\* selected (line 328).  Lines 180-192 are the loop of the merger's
\* handleMerge.
HandleMergeSelected ==
    /\ edPc = "clips"
    /\ ~clipsMerging
    /\ Len(selectedClips) >= 2
    /\ mergedClip' = Concatenate(BuffersToMerge(selectedClips))
    /\ clipsError' = Null
    /\ clipsMerging' = FALSE
    /\ UNCHANGED selectedClips
    /\ ClFrame

ClNext == ToggleClipSelection \/ ToggleSelectAll \/ HandleMergeSelected

\* The number of frames of the clips selected before the k-th.
RECURSIVE SelectedFramesBefore(_)
SelectedFramesBefore(k) ==
    IF k <= 1 THEN 0
    ELSE SelectedFramesBefore(k - 1) + clips[selectedClips[k - 1] + 1].buffer.length

\* C30: after every toggle of a clip or of Select All, selectedClips holds
\* no index twice and only indices of clips of the list; and what Merge
\* Selected builds holds the frames of every selected clip once, in the order
\* of selectedClips: those of the k-th selected clip follow those of the
\* k-1 before it, and nothing else.
C30_SelectionMergedInOrder ==
    [][ /\ \A j \in 1..Len(selectedClips') :
              /\ selectedClips'[j] \in 0..(Len(clips') - 1)
              /\ \A k \in 1..Len(selectedClips') :
                    selectedClips'[j] = selectedClips'[k] => j = k
        /\ mergedClip' # mergedClip =>
              /\ mergedClip'.length = SelectedFramesBefore(Len(selectedClips) + 1)
              /\ mergedClip'.numberOfChannels = buffer.numberOfChannels
              /\ mergedClip'.sampleRate = buffer.sampleRate
              /\ \A c \in 1..buffer.numberOfChannels :
                    /\ Len(mergedClip'.channels[c]) = mergedClip'.length
                    /\ \A k \in 1..Len(selectedClips) :
                       \A i \in 1..clips[selectedClips[k] + 1].buffer.length :
                          mergedClip'.channels[c][SelectedFramesBefore(k) + i]
                             = clips[selectedClips[k] + 1].buffer.channels[c][i]
      ]_vars
\* The third clip was selected before the first, after a toggle that
\* removed an index, and the two were merged: the frames of the third come
\* first.
C30_Witness ==
    /\ selectedClips = <<2, 0>>
    /\ clips[3].buffer # clips[1].buffer
    /\ mergedClip # NullBuffer
    /\ mergedClip.channels[1] = clips[3].buffer.channels[1] \o clips[1].buffer.channels[1]
    /\ mergedClip.channels[1] # clips[1].buffer.channels[1] \o clips[3].buffer.channels[1]

InitClipList == ClInit /\ WavOff /\ CvOff /\ TkOff /\ MgOff /\ TuOff /\ CuOff /\ DgOff /\ ApOff
SpecClipList == InitClipList /\ [][ClNext]_vars

InitFileList == FlInit /\ WavOff /\ CvOff /\ EdOff /\ TkOff /\ TuOff /\ CuOff /\ ApOff /\ ClOff
SpecFileList == InitFileList /\ [][FlNext]_vars

InitConverter == CvFileInit /\ WavOff /\ EdOff /\ TkOff /\ MgOff /\ TuOff /\ DgOff /\ ApOff /\ ClOff
SpecConverter == InitConverter /\ [][CvFileNext]_vars

InitToolkitFile == TkFileInit /\ WavOff /\ CvOff /\ EdOff /\ MgOff /\ CuOff /\ DgOff /\ ApOff /\ ClOff
SpecToolkitFile == InitToolkitFile /\ [][TkFileNext]_vars

InitPipeline ==
    TkPipelineInit /\ WavOff /\ CvOff /\ EdOff /\ MgOff /\ CuOff /\ DgOff /\ ApOff
        /\ ClOff
SpecPipeline == InitPipeline /\ [][TkPipelineNext]_vars

----------------------------------------------------------------------------
(* The transformations together: clip creation, the merge of clips and of  *)
(* files, the toolkit's pipeline with its WAV download, the MP3 encoding   *)

\* One of the transformations runs over its inputs: a stereo source of two
\* frames with no clip yet, a list of clips, a toolkit buffer at 5 Hz, a
\* converter file of at most one frame, a list of files.
InitBuffers ==
    \/ InitClip /\ buffer.length = MaxListFrames /\ buffer.numberOfChannels = 2
    \/ InitClipList /\ Len(clips) < MaxListClips
    \/ InitPipeline /\ sourceBuffer.sampleRate = 5
    \/ InitMp3 /\ file.length <= 1
    \/ InitMerger /\ Len(files) < MaxMergeFiles
BuffersNext == EdNext \/ ClNext \/ TkPipelineNext \/ CvNext \/ MgNext
SpecBuffers == InitBuffers /\ [][BuffersNext]_vars

\* C22: no transformation changes a buffer it was given: over every step of
\* clip creation, of a merge, of silence removal, normalization, speed
\* change and of the WAV and MP3 serialization, the decoded source of the
\* editor and of the toolkit, the clips there are, the files of the merger
\* and the file of the converter keep their samples, frame count and rate;
\* the buffer the converter decoded is that of its file, and when the list
\* of clips changes every clip is the buffer its WAV was serialized from.
C22_InputsUnchanged ==
    [][ /\ buffer' = buffer
        /\ sourceBuffer' = sourceBuffer
        /\ sourceBuffer' = tkFile'.audio
        /\ Len(clips') >= Len(clips)
        /\ \A k \in 1..Len(clips) : clips'[k] = clips[k]
        /\ clips' # clips =>
              \A k \in 1..Len(clips') :
                 clips'[k].url
                     = bufferToWave(clips'[k].buffer, clips'[k].buffer.length).view
        /\ files' = files
        /\ file' = file
        /\ audioBuffer' \in {NullBuffer, file}
      ]_vars
\* The toolkit has removed silence, changed the speed and serialized the
\* result, which differs from the source, and the source is still the
\* decode of the file.
C22_Witness ==
    /\ tkPc = "downloaded" /\ wavBlob # <<>>
    /\ shouldRemoveSilence /\ playbackSpeed # SpeedDen
    /\ currentBuffer # sourceBuffer /\ finalBuffer # currentBuffer
    /\ sourceBuffer = tkFile.audio

\* The whole model: one of the components runs, the others rest.
Init ==
    InitWav \/ InitMp3 \/ InitClip \/ InitSilence \/ InitSegments \/ InitNormalize
        \/ InitSpeed \/ InitMerger \/ InitPipeline
Next ==
    WavNext \/ CvNext \/ EdNext \/ TkNext \/ TkNormalizeNext \/ TkSpeedNext \/ MgNext
        \/ TkPipelineNext
Spec == Init /\ [][Next]_vars

====
